---- MODULE Spec2Model ----
(***************************************************************************)
(* A model of cg.Socket (src/cg/socket.go): the callback registry, the     *)
(* receive goroutine started by startListenLoop, the unbuffered channel    *)
(* eventWrapperChan, the two drain entry points RunEventLoop and NextEvent *)
(* and the handshake wait used by Join, Connect and Spectate.              *)
(*                                                                         *)
(* Every Go statement that reads or writes a field shared between the      *)
(* application task and the receive goroutine (running, err, the channel)  *)
(* is a step of its own: the code takes no lock anywhere.                  *)
(***************************************************************************)
EXTENDS Integers, Sequences, FiniteSets, TLC

\* ------------------------------------------------------------------ bounds
\* Frames the server puts on the wire in one run.
MaxFrames == 3
\* Callbacks the application registers in one run (On and Once together).
MaxCallbacks == 2
\* Calls of Leave that are told apart (the count stops there).
MaxLeaves == 2
\* Characters of a protocol version string.
MaxVersionLen == 4

\* --------------------------------------------------------------- constants
NewPlayerEvent == "cg_new_player"
LeftEvent == "cg_left"
InfoEvent == "cg_info"
ErrorEvent == "cg_error"
JoinedEvent == "cg_joined"
ConnectedEvent == "cg_connected"
JoinEvent == "cg_join"
ConnectEvent == "cg_connect"
SpectateEvent == "cg_spectate"
LeaveEvent == "cg_leave"
\* The event the doc comment of Join names beside the joined event.
PlayerSecretEvent == "player_secret"

\* Event names of the game itself, opaque to the library.
AppEvents == {"board", "tick"}

StandardEvents ==
    {NewPlayerEvent, LeftEvent, InfoEvent, ErrorEvent, JoinedEvent,
     ConnectedEvent, JoinEvent, ConnectEvent, SpectateEvent, LeaveEvent}

IsStandardEvent(eventName) == eventName \in StandardEvents

\* The error values a Socket can hold or return.
ErrNil == "nil"
ErrClosed == "connection closed"
ErrInvalidMessageType == "invalid message type"
ErrDecodeFailed == "failed to decode event"
\* websocket.CloseError values, by close code, and other read errors.
CloseNormalClosure == "websocket: close 1000"
CloseGoingAway == "websocket: close 1001"
CloseNoStatusReceived == "websocket: close 1005"
CloseAbnormalClosure == "websocket: close 1006"
ErrReset == "read: connection reset by peer"
ErrNetClosed == "use of closed network connection"

\* websocket.IsCloseError(err, CloseNormalClosure, CloseNoStatusReceived,
\* CloseGoingAway) as startListenLoop calls it.
IsCleanClose(e) ==
    e \in {CloseNormalClosure, CloseNoStatusReceived, CloseGoingAway}

\* ------------------------------------------------------------------ frames
\* What ReadMessage can hand to receiveEvent: a text frame holding a wrapper,
\* a text frame that is not JSON, a binary frame, or a read error.
TextFrame(name, origin, data) ==
    [kind |-> "text", name |-> name, origin |-> origin, data |-> data]
BadJsonFrame == [kind |-> "badjson", name |-> "", origin |-> "", data |-> ""]
BinaryFrame == [kind |-> "binary", name |-> "", origin |-> "", data |-> ""]
ErrFrame(e) == [kind |-> "error", name |-> "", origin |-> "", data |-> e]

BoardMsg == TextFrame("board", "server", "")
TickMsg == TextFrame("tick", "server", "")
InfoMsg == TextFrame(InfoEvent, "server", "p2=bob")
NewPlayerMsg == TextFrame(NewPlayerEvent, "p1", "alice")
LeftMsg == TextFrame(LeftEvent, "p2", "")
ErrorMsg == TextFrame(ErrorEvent, "server", "game not found")
JoinedMsg == TextFrame(JoinedEvent, "p1", "s1")
ConnectedMsg == TextFrame(ConnectedEvent, "server", "alice")
EmptyNameMsg == TextFrame("", "server", "")
PlayerSecretMsg == TextFrame(PlayerSecretEvent, "server", "s1")
\* Responses whose payload is cut off.
BadJoinedMsg == TextFrame(JoinedEvent, "p1", "{")
BadConnectedMsg == TextFrame(ConnectedEvent, "server", "{")

\* The frames of the steady state and of the handshake in the default
\* specification.
LoopFrames ==
    {BoardMsg, TickMsg, InfoMsg, EmptyNameMsg,
     ErrFrame(CloseNormalClosure), ErrFrame(CloseAbnormalClosure),
     ErrFrame(ErrReset)}
HandshakeFrames ==
    {BoardMsg, JoinedMsg, ConnectedMsg, InfoMsg, ErrorMsg,
     ErrFrame(ErrReset)}

Players == {"p1", "p2"}

\* ------------------------------------------------------------------- state
Tasks == {"app", "aux"}

BuiltinIds == {1, 2, 3}
Ids == 1 .. (3 + MaxCallbacks)

VARIABLES
    eventListeners, \* s.eventListeners: event name -> ids of its inner map
    callbacks,      \* the closure stored under each CallbackId ever issued
    nextId,         \* the next fresh CallbackId (uuid.New() never repeats)
    usernameCache,  \* s.usernameCache
    session,        \* s.session (the zero Session before a setup call
                    \* succeeded)
    sessionStore,   \* the session files on disk: path -> JSON document
    running,        \* s.running
    err,            \* s.err
    chanClosed,     \* whether s.eventWrapperChan has been closed
    wsOpen,         \* whether the local side still holds the connection open
    connErr,        \* the read error the connection is stuck in, or ErrNil
    nread,          \* frames read from the connection so far
    sent,           \* names of the events Send has encoded and passed to
                    \* WriteMessage
    listeners,      \* the goroutines started by startListenLoop
    pc,             \* where each application task is in its public call
    stack,          \* the triggerEventListeners activations of each task
    setup,          \* the setup call a task is in: its kind and expected name
    ret,            \* what the last public call of each task returned
    log,            \* every callback invocation so far, in order: the
                    \* number of the message, the id, the caller
    removed,        \* ids RemoveCallback has been called with and returned
    leaves,         \* how many calls of Leave have returned
    runRet,         \* what RunEventLoop last returned ("none" before), and
                    \* whether a receive goroutine had been started by then
    panicked,       \* the Go runtime has aborted the process
    fnCall,         \* the last call of a function of the package that
                    \* takes no Socket: its arguments and its results
    dispatched      \* for the number of each message decoded so far, how
                    \* often triggerEventListeners was called for it

regVars == <<eventListeners, callbacks, nextId>>
sockVars == <<usernameCache, session, sessionStore, running, err, chanClosed>>
netVars == <<wsOpen, connErr, nread, sent>>
taskVars == <<pc, stack, setup, ret>>
histVars == <<log, removed, runRet, leaves, dispatched>>
vars == <<eventListeners, callbacks, nextId, usernameCache, session,
          sessionStore, running, err, chanClosed, wsOpen, connErr, nread,
          sent, listeners, pc, stack, setup, ret, log, removed, runRet,
          leaves, panicked, fnCall, dispatched>>

\* What a public call returned: the call, ok and err as returned, the
\* message returned (its number and name), and what the call found: the
\* case its select took, or whether a receive goroutine had been started.
NoRet == [op |-> "none", ok |-> FALSE, err |-> ErrNil, seq |-> 0,
          name |-> "", pre |-> "none", arg |-> ""]
NoRun == [err |-> "none", started |-> FALSE]
\* The setup call a task is in, with the wrappers its wait has read so far.
NoSetup == [kind |-> "none", expect |-> "", username |-> "", seen |-> <<>>,
            loaded |-> [Name |-> "", Username |-> "", GameId |-> "",
                        PlayerId |-> "", PlayerSecret |-> ""]]

\* Session: the game, the player, and the secret to reconnect with.
newSession(name, username, gameId, playerId, playerSecret) ==
    [Name |-> name, Username |-> username, GameId |-> gameId,
     PlayerId |-> playerId, PlayerSecret |-> playerSecret]
NoSession == newSession("", "", "", "", "")

\* What a function of the package returned: isVersionCompatible its verdict
\* for the two versions, loadSession a Session and an error, save and remove
\* an error.
NoCall == [fn |-> "none", server |-> <<>>, client |-> <<>>,
           key |-> <<>>, ok |-> FALSE, warned |-> FALSE,
           session |-> NoSession, err |-> ErrNil]

\* A closure stored in the registry, with the event it was registered for: On
\* stores the callback itself, Once stores a wrapper that calls it and then
\* RemoveCallback(id).
Callback(event, once, body, target) ==
    [event |-> event, once |-> once, body |-> body, target |-> target]

Init ==
    /\ eventListeners =
           (NewPlayerEvent :> {1}) @@ (LeftEvent :> {2}) @@ (InfoEvent :> {3})
    /\ callbacks = <<Callback(NewPlayerEvent, FALSE, "cacheNewPlayer", 0),
                     Callback(LeftEvent, FALSE, "uncacheLeft", 0),
                     Callback(InfoEvent, FALSE, "cacheInfo", 0)>>
    /\ nextId = 4
    /\ usernameCache = <<>>
    /\ session = NoSession
    /\ sessionStore = <<>>
    /\ running = FALSE
    /\ err = ErrNil
    /\ chanClosed = FALSE
    /\ wsOpen = TRUE
    /\ connErr = ErrNil
    /\ nread = 0
    /\ sent = {}
    /\ listeners = <<>>
    /\ pc = [t \in Tasks |-> "idle"]
    /\ stack = [t \in Tasks |-> <<>>]
    /\ setup = [t \in Tasks |-> NoSetup]
    /\ ret = [t \in Tasks |-> NoRet]
    /\ log = <<>>
    /\ removed = {}
    /\ runRet = NoRun
    /\ leaves = 0
    /\ panicked = FALSE
    /\ fnCall = NoCall
    /\ dispatched = <<>>

\* ---------------------------------------------------------------- registry
\* Faulty variant: every inner map is ranged over, whatever the name.
RegisteredAnyName(el, event) == UNION {el[n] : n \in DOMAIN el}

\* Faulty variant: an error event is kept from the callbacks.
RegisteredButErrors(el, event) ==
    IF event \in DOMAIN el /\ event # ErrorEvent THEN el[event] ELSE {}

\* The inner map s.eventListeners[event], nil (absent) read as empty.
Registered(el, event) == IF event \in DOMAIN el THEN el[event] ELSE {}

\* On and Once: create the inner map when it is nil, then store under id.
Register(el, event, id) ==
    LET el1 == IF event \in DOMAIN el THEN el ELSE el @@ (event :> {})
    IN  [el1 EXCEPT ![event] = @ \cup {id}]

\* Faulty variant: delete(s.eventListeners, id): the outer map has no such key.
UnregisterOuter(el, id) == el

\* Faulty variant: delete(s.eventListeners, event) for the events that hold id.
UnregisterBucket(el, id) ==
    [n \in {m \in DOMAIN el : id \notin el[m]} |-> el[n]]

\* RemoveCallback: delete(callbacks, id) in every inner map.
Unregister(el, id) == [n \in DOMAIN el |-> el[n] \ {id}]

\* Leave: delete every key that is not a standard event.
\* Faulty variant: every key of the outer map is deleted.
DropAllListeners(el) == <<>>
\* Faulty variant: no key is deleted.
DropNoListeners(el) == el
DropNonStandard(el) ==
    [n \in {m \in DOMAIN el : IsStandardEvent(m)} |-> el[n]]

\* ----------------------------------------------------------- username cache
CacheUser(cache, playerId, username) == (playerId :> username) @@ cache
\* Faulty variant: the entry of a player that left is kept.
UncacheUserKeeps(cache, playerId) == cache
UncacheUser(cache, playerId) ==
    [q \in DOMAIN cache \ {playerId} |-> cache[q]]
\* InfoEventData.Players as decoded from the payload.
InfoPlayers(data) == IF data = "p2=bob" THEN ("p2" :> "bob") ELSE <<>>
\* Faulty variant: the snapshot is decoded and dropped.
CacheAllDropped(cache, players) == cache
CacheAll(cache, players) == players @@ cache
\* s.ResolveUsername(playerId): the cache entry, "" where there is none.
ResolveUsername(cache, playerId) ==
    IF playerId \in DOMAIN cache THEN cache[playerId] ELSE ""

\* ---------------------------------------------------------------- dispatch
\* One activation of triggerEventListeners: the message, the entries of the
\* inner map the range loop has still to produce, whether that inner map is
\* still the one stored in s.eventListeners, the one-shot wrapper whose
\* RemoveCallback is still to run, and (history) the entries at the start
\* and the entries invoked.
Frame(msg, ids) ==
    [msg |-> msg, pending |-> ids, attached |-> TRUE, cur |-> 0,
     start |-> ids, visited |-> {}]

Top(t) == stack[t][Len(stack[t])]
SetTop(st, t, f) == [st EXCEPT ![t] = [@ EXCEPT ![Len(@)] = f]]
Push(st, t, f) == [st EXCEPT ![t] = Append(@, f)]
Pop(st, t) == [st EXCEPT ![t] = SubSeq(@, 1, Len(@) - 1)]

\* delete during range: an entry removed before it is reached is never
\* produced. Only loops over inner maps still in s.eventListeners see it.
DeleteFromFrames(st, id) ==
    [u \in Tasks |->
        [i \in 1 .. Len(st[u]) |->
            IF st[u][i].attached
            THEN [st[u][i] EXCEPT !.pending = @ \ {id}]
            ELSE st[u][i]]]

\* Leave deletes the outer key: a loop already ranging over that inner map
\* keeps the map it holds, which later deletes no longer reach.
DetachFrames(st) ==
    [u \in Tasks |->
        [i \in 1 .. Len(st[u]) |->
            IF IsStandardEvent(st[u][i].msg.name)
            THEN st[u][i]
            ELSE [st[u][i] EXCEPT !.attached = FALSE]]]

\* The goroutines parked at s.eventWrapperChan <- wrapper, from which a
\* receive can take a wrapper: a send on a closed channel hands nothing over.
SendersReady ==
    IF chanClosed THEN {}
    ELSE {i \in 1 .. Len(listeners) : listeners[i].pc = "send"}

\* ------------------------------------------------- effects of a method body
\* Each states eventListeners, usernameCache, running, wsOpen, sent, removed,
\* listeners and stack; st is the stack as the caller leaves it.
effVars == <<eventListeners, usernameCache, sessionStore, running, wsOpen,
             sent, removed, leaves, listeners, dispatched>>

\* A message is decoded, and triggerEventListeners is called for a message.
Decoded(d, seq, n) == (seq :> n) @@ d
Dispatched(d, seq) == [d EXCEPT ![seq] = @ + 1]

EffNone(st) ==
    /\ stack' = st
    /\ UNCHANGED effVars

EffRemoveCallback(st, id) ==
    /\ eventListeners' = Unregister(eventListeners, id)
    /\ stack' = DeleteFromFrames(st, id)
    /\ removed' = removed \cup {id}
    /\ UNCHANGED <<usernameCache, sessionStore, running, wsOpen, sent, leaves,
                   listeners, dispatched>>

\* Faulty variant: the session file is left on disk.
SessionRemoveSkipped(store, s) == store

\* The file of a session: gamesPath/PathEscape(gameURL)/username.json.
SessionPath(gameURL, username) == <<gameURL, username>>

\* Faulty variant: the secret is left out of the document as well.
MarshalOmitsSecret(s) ==
    [game_id |-> s.GameId, player_id |-> s.PlayerId, player_secret |-> ""]

\* json.Marshal of a Session: the game URL and the username carry the tag
\* json:"-" and are left out of the document.
Marshal(s) ==
    [game_id |-> s.GameId, player_id |-> s.PlayerId,
     player_secret |-> s.PlayerSecret]

\* The error Session.save returns.
SaveError(s) == IF s.Name = "" THEN "empty game url" ELSE ErrNil

\* Session.save and Session.remove on the session directory: save refuses a
\* session without a game and writes nothing, remove does nothing for it.
SessionSave(store, s) ==
    IF s.Name = "" THEN store
    ELSE [k \in DOMAIN store \cup {SessionPath(s.Name, s.Username)} |->
             IF k = SessionPath(s.Name, s.Username) THEN Marshal(s)
             ELSE store[k]]

SessionRemove(store, s) ==
    IF s.Name = "" THEN store
    ELSE [k \in DOMAIN store \ {SessionPath(s.Name, s.Username)} |->
             store[k]]

\* os.ReadFile of a file that does not exist.
ErrNotExist == "no such file or directory"

\* loadSession: read the file, decode the document, then fill in the game URL
\* and the username the caller asked for.
loadSession(store, gameURL, username) ==
    IF SessionPath(gameURL, username) \notin DOMAIN store
    THEN [session |-> NoSession, err |-> ErrNotExist]
    ELSE LET doc == store[SessionPath(gameURL, username)]
         IN  [session |-> newSession(gameURL, username, doc.game_id,
                                     doc.player_id, doc.player_secret),
              err |-> ErrNil]

EffLeave(st) ==
    /\ eventListeners' = DropNonStandard(eventListeners)
    /\ usernameCache' = <<>>
    /\ sessionStore' = SessionRemove(sessionStore, session)
    /\ running' = FALSE
    /\ sent' = sent \cup {LeaveEvent}
    /\ stack' = DetachFrames(st)
    /\ leaves' = IF leaves < MaxLeaves THEN leaves + 1 ELSE leaves
    /\ UNCHANGED <<wsOpen, removed, listeners, dispatched>>

EffClose(st) ==
    /\ running' = FALSE
    /\ wsOpen' = FALSE
    /\ stack' = st
    /\ UNCHANGED <<eventListeners, usernameCache, sessionStore, sent, removed,
                   leaves, listeners, dispatched>>

EffCache(st, cache) ==
    /\ usernameCache' = cache
    /\ stack' = st
    /\ UNCHANGED <<eventListeners, sessionStore, running, wsOpen, sent,
                   removed, leaves, listeners, dispatched>>

\* NextEvent called from inside a callback: its result is dropped, but a
\* message that is ready is received and dispatched before the callback
\* returns.
EffNextEvent(st, t) ==
    /\ IF SendersReady # {}
       THEN \E i \in SendersReady :
               /\ listeners' = [listeners EXCEPT ![i].pc = "check"]
               /\ dispatched' = Dispatched(dispatched, listeners[i].msg.seq)
               /\ stack' = Push(st, t,
                                Frame(listeners[i].msg,
                                      Registered(eventListeners,
                                                 listeners[i].msg.name)))
       ELSE /\ listeners' = listeners
            /\ dispatched' = dispatched
            /\ stack' = st
    /\ UNCHANGED <<eventListeners, usernameCache, sessionStore, running,
                   wsOpen, sent, removed, leaves>>

\* The body of the closure stored under id, run for message msg on task t.
RunBody(st, t, id, msg) ==
    LET cb == callbacks[id]
    IN  CASE cb.body = "remove" -> EffRemoveCallback(st, cb.target)
          [] cb.body = "leave" -> EffLeave(st)
          [] cb.body = "close" -> EffClose(st)
          [] cb.body = "next" -> EffNextEvent(st, t)
          [] cb.body = "cacheNewPlayer" ->
                 EffCache(st, CacheUser(usernameCache, msg.origin, msg.data))
          [] cb.body = "uncacheLeft" ->
                 EffCache(st, UncacheUser(usernameCache, msg.origin))
          [] cb.body = "cacheInfo" ->
                 EffCache(st, CacheAll(usernameCache, InfoPlayers(msg.data)))
          [] OTHER -> EffNone(st)

\* One iteration of the range loop of triggerEventListeners: cb(origin,
\* event) for an entry not produced yet. A one-shot wrapper has its
\* RemoveCallback still to run when its callback returns.
Invoke(t) ==
    /\ ~panicked
    /\ stack[t] # <<>>
    /\ Top(t).cur = 0
    /\ \E id \in Top(t).pending :
          LET f == Top(t)
              f1 == [f EXCEPT !.pending = @ \ {id},
                              !.visited = @ \cup {id},
                              !.cur = IF callbacks[id].once THEN id ELSE 0]
          IN  /\ log' = Append(log, [seq |-> f.msg.seq, id |-> id,
                                      via |-> pc[t], msg |-> f.msg])
              /\ RunBody(SetTop(stack, t, f1), t, id, f.msg)
    /\ UNCHANGED <<callbacks, nextId, session, err, chanClosed, connErr,
                   nread, pc, setup, ret, runRet, panicked, fnCall>>

\* Faulty variant: the wrapper returns without removing itself.
OnceRemoveForgets(t) ==
    /\ ~panicked
    /\ stack[t] # <<>>
    /\ Top(t).cur # 0
    /\ stack' = SetTop(stack, t, [Top(t) EXCEPT !.cur = 0])
    /\ UNCHANGED <<regVars, sockVars, netVars, listeners, pc, setup, ret,
                   histVars, panicked, fnCall>>

\* The second statement of the wrapper Once stores: s.RemoveCallback(id).
OnceRemove(t) ==
    /\ ~panicked
    /\ stack[t] # <<>>
    /\ Top(t).cur # 0
    /\ EffRemoveCallback(SetTop(stack, t, [Top(t) EXCEPT !.cur = 0]),
                         Top(t).cur)
    /\ UNCHANGED <<callbacks, nextId, session, err, chanClosed, connErr,
                   nread, pc, setup, ret, log, runRet, panicked, fnCall>>

\* triggerEventListeners returns into a callback that called NextEvent.
NestedReturn(t) ==
    /\ ~panicked
    /\ Len(stack[t]) > 1
    /\ Top(t).cur = 0
    /\ Top(t).pending = {}
    /\ stack' = Pop(stack, t)
    /\ UNCHANGED <<regVars, sockVars, netVars, listeners, pc, setup, ret,
                   histVars, panicked, fnCall>>

\* ------------------------------------------------------------ the transport
\* What a ReadMessage on the connection can return now. A connection closed
\* locally fails every read; a failed connection keeps failing; otherwise the
\* server chooses the next frame among F, or stays silent.
Readable(F) ==
    IF ~wsOpen THEN {ErrFrame(ErrNetClosed)}
    ELSE IF connErr # ErrNil THEN {ErrFrame(connErr)}
    ELSE IF nread < MaxFrames THEN F
    ELSE {}

\* receiveEvent: the wrapper, or the error it returns.
receiveEvent(frame, seq) ==
    IF frame.kind = "error" THEN [ok |-> FALSE, err |-> frame.data]
    ELSE IF frame.kind = "binary"
    THEN [ok |-> FALSE, err |-> ErrInvalidMessageType]
    ELSE IF frame.kind = "badjson" THEN [ok |-> FALSE, err |-> ErrDecodeFailed]
    ELSE IF frame.name = "" THEN [ok |-> FALSE, err |-> ErrDecodeFailed]
    ELSE [ok |-> TRUE, err |-> ErrNil,
          msg |-> [seq |-> seq, name |-> frame.name, origin |-> frame.origin,
                   data |-> frame.data]]

\* The connection after frame was read from it.
ReadEffect(frame) ==
    /\ nread' = IF wsOpen /\ connErr = ErrNil THEN nread + 1 ELSE nread
    /\ connErr' = IF frame.kind = "error" /\ wsOpen THEN frame.data
                  ELSE connErr

\* The server closes the connection: every read from now on fails with the
\* close error.
RemoteCloses ==
    /\ ~panicked
    /\ wsOpen
    /\ connErr = ErrNil
    /\ connErr' = CloseNormalClosure
    /\ UNCHANGED <<regVars, sockVars, wsOpen, nread, sent, listeners,
                   taskVars, histVars, panicked, fnCall>>

\* ------------------------------------------------------ the receive goroutine
Listener(lpc, msg, lerr) == [pc |-> lpc, msg |-> msg, err |-> lerr]
NoMsg == [seq |-> 0, name |-> "", origin |-> "", data |-> ""]

\* for s.running { ... }
ListenCheck(i) ==
    /\ ~panicked
    /\ i \in 1 .. Len(listeners)
    /\ listeners[i].pc = "check"
    /\ listeners' = [listeners EXCEPT ![i].pc =
                        IF running THEN "read" ELSE "done"]
    /\ UNCHANGED <<regVars, sockVars, netVars, taskVars, histVars, panicked,
                   fnCall>>

\* Faulty variant: each wrapper is sent by a goroutine of its own, and the loop
\* reads on without waiting for the receiver.
ListenReadAsync(i, F) ==
    /\ ~panicked
    /\ i \in 1 .. Len(listeners)
    /\ listeners[i].pc = "read"
    /\ \E frame \in Readable(F) :
          LET r == receiveEvent(frame, nread + 1)
          IN  /\ ReadEffect(frame)
              /\ listeners' =
                     IF r.ok
                     THEN Append([listeners EXCEPT ![i].pc = "check"],
                                 [pc |-> "send", msg |-> r.msg,
                                  err |-> ErrNil])
                     ELSE [listeners EXCEPT ![i] =
                              [pc |-> "seterr", msg |-> listeners[i].msg,
                               err |-> r.err]]
              /\ dispatched' = IF r.ok THEN Decoded(dispatched, nread + 1, 0)
                               ELSE dispatched
    /\ UNCHANGED <<regVars, sockVars, wsOpen, sent, taskVars, log, removed,
                   runRet, leaves, panicked, fnCall>>

\* wrapper, err := s.receiveEvent()
ListenRead(i, F) ==
    /\ ~panicked
    /\ i \in 1 .. Len(listeners)
    /\ listeners[i].pc = "read"
    /\ \E frame \in Readable(F) :
          LET r == receiveEvent(frame, nread + 1)
          IN  /\ ReadEffect(frame)
              /\ listeners' = [listeners EXCEPT ![i] =
                     IF r.ok THEN Listener("send", r.msg, ErrNil)
                     ELSE Listener("seterr", NoMsg, r.err)]
              /\ dispatched' = IF r.ok THEN Decoded(dispatched, nread + 1, 0)
                               ELSE dispatched
    /\ UNCHANGED <<regVars, sockVars, wsOpen, sent, taskVars, log, removed,
                   runRet, leaves, panicked, fnCall>>

\* s.err = ErrClosed, or s.err = err
ListenSetErr(i) ==
    /\ ~panicked
    /\ i \in 1 .. Len(listeners)
    /\ listeners[i].pc = "seterr"
    /\ err' = IF IsCleanClose(listeners[i].err) THEN ErrClosed
              ELSE listeners[i].err
    /\ listeners' = [listeners EXCEPT ![i].pc = "setrunning"]
    /\ UNCHANGED <<regVars, usernameCache, session, sessionStore, running,
                   chanClosed, netVars, taskVars, histVars, panicked, fnCall>>

\* s.running = false
ListenSetRunning(i) ==
    /\ ~panicked
    /\ i \in 1 .. Len(listeners)
    /\ listeners[i].pc = "setrunning"
    /\ running' = FALSE
    /\ listeners' = [listeners EXCEPT ![i].pc = "close"]
    /\ UNCHANGED <<regVars, usernameCache, session, sessionStore, err,
                   chanClosed, netVars, taskVars, histVars, panicked, fnCall>>

\* close(s.eventWrapperChan): closing a closed channel panics.
ListenClose(i) ==
    /\ ~panicked
    /\ i \in 1 .. Len(listeners)
    /\ listeners[i].pc = "close"
    /\ chanClosed' = TRUE
    /\ panicked' = chanClosed
    /\ fnCall' = fnCall
    /\ listeners' = [listeners EXCEPT ![i].pc = "check"]
    /\ UNCHANGED <<regVars, usernameCache, session, sessionStore, running,
                   err, netVars, taskVars, histVars>>

\* s.eventWrapperChan <- wrapper on the closed channel panics, also for a
\* goroutine that was parked at the send when the channel was closed.
ListenSendClosed(i) ==
    /\ ~panicked
    /\ i \in 1 .. Len(listeners)
    /\ listeners[i].pc = "send"
    /\ chanClosed
    /\ panicked' = TRUE
    /\ UNCHANGED <<regVars, sockVars, netVars, listeners, taskVars, histVars,
                   fnCall>>

\* startListenLoop: s.running = true; go func() { ... }()
startListenLoop(ls) == Append(ls, Listener("check", NoMsg, ErrNil))

\* --------------------------------------------------------- On, Once, Remove
\* The bodies an application callback can have: it does nothing to the
\* socket, or it calls RemoveCallback, Leave, Close or NextEvent on it.
PlainBodies == {"noop", "remove", "leave", "close"}

\* The tasks other than t that are inside the range loop of
\* triggerEventListeners over the inner map of one of the events.
Ranging(t, events) ==
    {u \in Tasks \ {t} :
        \E i \in DOMAIN stack[u] :
            /\ stack[u][i].attached
            /\ stack[u][i].msg.name \in events
            /\ stack[u][i].msg.name \in DOMAIN eventListeners}

\* A write to inner maps by task t: the maps are plain Go maps and no lock is
\* taken, so a write while another task ranges over the map is a data race;
\* the runtime may abort the process ("concurrent map iteration and map
\* write") or go on. The set is what can become of panicked.
MapWrite(t, events) ==
    IF Ranging(t, events) # {} THEN {FALSE, TRUE} ELSE {FALSE}

RegisterCallback(t, event, once, body, target) ==
    /\ ~panicked
    /\ pc[t] = "idle"
    /\ nextId <= 3 + MaxCallbacks
    /\ eventListeners' = Register(eventListeners, event, nextId)
    /\ callbacks' = Append(callbacks, Callback(event, once, body, target))
    /\ nextId' = nextId + 1
    /\ panicked' \in MapWrite(t, {event})
    /\ UNCHANGED <<sockVars, netVars, listeners, taskVars, histVars, fnCall>>

\* s.On(event, callback)
On(t, event, body, target) == RegisterCallback(t, event, FALSE, body, target)

\* s.Once(event, callback)
Once(t, event, body, target) == RegisterCallback(t, event, TRUE, body, target)

\* s.RemoveCallback(id) called by the application between other calls.
RemoveCallback(t, id) ==
    /\ ~panicked
    /\ pc[t] = "idle"
    /\ EffRemoveCallback(stack, id)
    /\ panicked' \in MapWrite(t, DOMAIN eventListeners)
    /\ UNCHANGED <<callbacks, nextId, session, err, chanClosed, connErr,
                   nread, pc, setup, ret, log, runRet, fnCall>>

\* s.Leave() called by the application between other calls; it returns what
\* Send returns, which is nil for an event without data.
Leave(t) ==
    /\ ~panicked
    /\ pc[t] = "idle"
    /\ EffLeave(stack)
    /\ ret' = [ret EXCEPT ![t] = [NoRet EXCEPT !.op = "Leave"]]
    /\ UNCHANGED <<callbacks, nextId, session, err, chanClosed, connErr,
                   nread, pc, setup, log, runRet, panicked, fnCall>>

\* s.Close() called by the application between other calls.
Close(t) ==
    /\ ~panicked
    /\ pc[t] = "idle"
    /\ EffClose(stack)
    /\ UNCHANGED <<callbacks, nextId, session, err, chanClosed, connErr,
                   nread, pc, setup, ret, log, runRet, panicked, fnCall>>

\* --------------------------------------------------------------------- Send
\* The error of json.Marshal for data that has no JSON encoding.
ErrUnsupportedType == "json: unsupported type"

\* What wsConn.WriteMessage can do with a frame: a connection closed locally
\* fails every write, one that has failed may fail it.
WriteOutcomes ==
    IF ~wsOpen THEN {"write failed"}
    ELSE IF connErr # ErrNil THEN {"written", "write failed"}
    ELSE {"written"}

\* Faulty variant: the error of WriteMessage is returned.
SendReportsWrite(encodable, outcome) ==
    IF ~encodable THEN ErrUnsupportedType
    ELSE IF outcome = "write failed" THEN ErrNetClosed
    ELSE ErrNil

\* The error Send returns: that of marshalData or json.Marshal; the result of
\* WriteMessage is dropped.
Send(encodable, outcome) ==
    IF ~encodable THEN ErrUnsupportedType ELSE ErrNil

\* s.Send(eventName, eventData) called by the application between other
\* calls, with data that can or cannot be encoded.
SendCall(t, eventName, encodable) ==
    /\ ~panicked
    /\ pc[t] = "idle"
    /\ \E o \in WriteOutcomes :
          ret' = [ret EXCEPT ![t] =
                     [NoRet EXCEPT !.op = "Send",
                                   !.err = Send(encodable, o),
                                   !.name = eventName,
                                   !.pre = IF encodable THEN o
                                           ELSE "not encoded"]]
    /\ sent' = IF encodable THEN sent \cup {eventName} ELSE sent
    /\ UNCHANGED <<regVars, sockVars, wsOpen, connErr, nread, listeners, pc,
                   stack, setup, histVars, panicked, fnCall>>

\* ------------------------------------------------------------- RunEventLoop
\* The value RunEventLoop returns: nil for ErrClosed, s.err otherwise.
RunResult(e) == IF e = ErrClosed THEN ErrNil ELSE e

RunReturns(t) ==
    /\ pc' = [pc EXCEPT ![t] = "idle"]
    /\ ret' = [ret EXCEPT ![t] =
                  [NoRet EXCEPT !.op = "RunEventLoop", !.err = RunResult(err)]]
    /\ runRet' = [err |-> RunResult(err), started |-> listeners # <<>>]

\* Faulty variant: for !s.running
RunLoopConditionNegated(r) == ~r

\* The condition of the loop of RunEventLoop: for s.running
RunLoopCondition(r) == r

\* s.RunEventLoop() is called.
RunEventLoop(t) ==
    /\ ~panicked
    /\ pc[t] = "idle"
    /\ pc' = [pc EXCEPT ![t] = "run_check"]
    /\ UNCHANGED <<regVars, sockVars, netVars, listeners, stack, setup, ret,
                   histVars, panicked, fnCall>>

\* for s.running: enter the body, or leave the loop and return.
RunCheck(t) ==
    /\ ~panicked
    /\ pc[t] = "run_check"
    /\ IF RunLoopCondition(running)
       THEN /\ pc' = [pc EXCEPT ![t] = "run_recv"]
            /\ UNCHANGED <<ret, runRet>>
       ELSE RunReturns(t)
    /\ UNCHANGED <<regVars, sockVars, netVars, listeners, stack, setup, log,
                   removed, leaves, dispatched, panicked, fnCall>>

\* wrapper, ok := <-s.eventWrapperChan with a sender parked: the message is
\* handed over and triggerEventListeners starts.
RunReceive(t) ==
    /\ ~panicked
    /\ pc[t] = "run_recv"
    /\ \E i \in SendersReady :
          /\ listeners' = [listeners EXCEPT ![i].pc = "check"]
          /\ dispatched' = Dispatched(dispatched, listeners[i].msg.seq)
          /\ stack' = Push(stack, t,
                           Frame(listeners[i].msg,
                                 Registered(eventListeners,
                                            listeners[i].msg.name)))
    /\ pc' = [pc EXCEPT ![t] = "run_disp"]
    /\ UNCHANGED <<regVars, sockVars, netVars, setup, ret, log, removed,
                   runRet, leaves, panicked, fnCall>>

\* wrapper, ok := <-s.eventWrapperChan on the closed channel: break, return.
RunClosed(t) ==
    /\ ~panicked
    /\ pc[t] = "run_recv"
    /\ SendersReady = {}
    /\ chanClosed
    /\ RunReturns(t)
    /\ UNCHANGED <<regVars, sockVars, netVars, listeners, stack, setup, log,
                   removed, leaves, dispatched, panicked, fnCall>>

\* triggerEventListeners returns to the loop.
RunDispatched(t) ==
    /\ ~panicked
    /\ pc[t] = "run_disp"
    /\ Len(stack[t]) = 1
    /\ Top(t).cur = 0
    /\ Top(t).pending = {}
    /\ stack' = Pop(stack, t)
    /\ pc' = [pc EXCEPT ![t] = "run_check"]
    /\ UNCHANGED <<regVars, sockVars, netVars, listeners, setup, ret,
                   histVars, panicked, fnCall>>

\* ---------------------------------------------------------------- NextEvent
\* Faulty variant: the receive does not look at ok: a closed channel reads as
\* nothing to do.
SelectCaseIgnoresClose(ready, closed) ==
    IF ready THEN "message" ELSE "default"

\* The case the select of NextEvent takes: a receive when a sender is parked
\* or the channel is closed, default otherwise.
SelectCase(ready, closed) ==
    IF ready THEN "message" ELSE IF closed THEN "closed" ELSE "default"

\* Faulty variant: the message is dispatched and left with its sender.
NextReceiveKeeps(t) ==
    /\ ~panicked
    /\ pc[t] = "idle"
    /\ SelectCase(SendersReady # {}, chanClosed) = "message"
    /\ \E i \in SendersReady :
          /\ listeners' = listeners
          /\ dispatched' = Dispatched(dispatched, listeners[i].msg.seq)
          /\ stack' = Push(stack, t,
                           Frame(listeners[i].msg,
                                 Registered(eventListeners,
                                            listeners[i].msg.name)))
    /\ pc' = [pc EXCEPT ![t] = "next_disp"]
    /\ UNCHANGED <<regVars, sockVars, netVars, setup, ret, log, removed,
                   runRet, leaves, panicked, fnCall>>

\* s.NextEvent() with a message ready: receive it, start the dispatch.
NextReceive(t) ==
    /\ ~panicked
    /\ pc[t] = "idle"
    /\ SelectCase(SendersReady # {}, chanClosed) = "message"
    /\ \E i \in SendersReady :
          /\ listeners' = [listeners EXCEPT ![i].pc = "check"]
          /\ dispatched' = Dispatched(dispatched, listeners[i].msg.seq)
          /\ stack' = Push(stack, t,
                           Frame(listeners[i].msg,
                                 Registered(eventListeners,
                                            listeners[i].msg.name)))
    /\ pc' = [pc EXCEPT ![t] = "next_disp"]
    /\ UNCHANGED <<regVars, sockVars, netVars, setup, ret, log, removed,
                   runRet, leaves, panicked, fnCall>>

\* triggerEventListeners returns: return wrapper, true, nil
NextDispatched(t) ==
    /\ ~panicked
    /\ pc[t] = "next_disp"
    /\ Len(stack[t]) = 1
    /\ Top(t).cur = 0
    /\ Top(t).pending = {}
    /\ stack' = Pop(stack, t)
    /\ pc' = [pc EXCEPT ![t] = "idle"]
    /\ ret' = [ret EXCEPT ![t] =
                  [op |-> "NextEvent", ok |-> TRUE, err |-> ErrNil,
                   seq |-> Top(t).msg.seq, name |-> Top(t).msg.name,
                   pre |-> "message", arg |-> ""]]
    /\ UNCHANGED <<regVars, sockVars, netVars, listeners, setup, histVars,
                   panicked, fnCall>>

\* s.NextEvent() with nothing ready: return EventWrapper{}, false, s.err on
\* the closed channel and EventWrapper{}, false, nil on the open one.
NextEmpty(t) ==
    /\ ~panicked
    /\ pc[t] = "idle"
    /\ LET c == SelectCase(SendersReady # {}, chanClosed)
       IN  /\ c # "message"
           /\ ret' = [ret EXCEPT ![t] =
                         [op |-> "NextEvent", ok |-> FALSE,
                          err |-> IF c = "closed" THEN err ELSE ErrNil,
                          seq |-> 0, name |-> "",
                          pre |-> IF chanClosed THEN "closed" ELSE "empty",
                          arg |-> ""]]
    /\ UNCHANGED <<regVars, sockVars, netVars, listeners, pc, stack, setup,
                   histVars, panicked, fnCall>>

\* ------------------------------------------------------ protocol versions
\* A version string is the sequence of its characters.
Digits == {"0", "1", "9"}
VersionChars == Digits \cup {".", "x"}
DigitValue == ("0" :> 0) @@ ("1" :> 1) @@ ("9" :> 9)

\* strings.Split(s, "."): the parts between the dots; a string without a dot,
\* the empty one too, is its only part.
RECURSIVE Split(_)
Split(s) ==
    IF \A i \in DOMAIN s : s[i] # "." THEN <<s>>
    ELSE LET i == CHOOSE j \in DOMAIN s :
                      s[j] = "." /\ \A k \in 1 .. (j - 1) : s[k] # "."
         IN  <<SubSeq(s, 1, i - 1)>> \o Split(SubSeq(s, i + 1, Len(s)))

\* strconv.Atoi on a part: decimal digits give their value, anything else
\* (the empty part too) an error.
RECURSIVE DecimalValue(_)
DecimalValue(p) ==
    IF p = <<>> THEN 0
    ELSE 10 * DecimalValue(SubSeq(p, 1, Len(p) - 1)) + DigitValue[p[Len(p)]]
Atoi(p) ==
    IF p # <<>> /\ \A i \in DOMAIN p : p[i] \in Digits
    THEN [n |-> DecimalValue(p), ok |-> TRUE]
    ELSE [n |-> 0, ok |-> FALSE]

\* Faulty variant: the minor versions must be equal whatever the major is.
isVersionCompatibleExact(serverVersion, clientVersion) ==
    LET s0 == Split(serverVersion)
        c0 == Split(clientVersion)
        serverParts == IF Len(s0) = 1 THEN Append(s0, <<"0">>) ELSE s0
        clientParts == IF Len(c0) = 1 THEN Append(c0, <<"0">>) ELSE c0
    IN  serverParts[1] = clientParts[1] /\ serverParts[2] = clientParts[2]

\* isVersionCompatible(serverVersion), with the package constant CGVersion as
\* clientVersion: the parts are compared as strings up to the zero-major
\* case and as integers after it.
isVersionCompatible(serverVersion, clientVersion) ==
    LET s0 == Split(serverVersion)
        c0 == Split(clientVersion)
        serverParts == IF Len(s0) = 1 THEN Append(s0, <<"0">>) ELSE s0
        clientParts == IF Len(c0) = 1 THEN Append(c0, <<"0">>) ELSE c0
        serverMinor == Atoi(serverParts[2])
        clientMinor == Atoi(clientParts[2])
    IN  IF serverParts[1] # clientParts[1] THEN FALSE
        ELSE IF clientParts[1] = <<"0">>
        THEN serverParts[2] = clientParts[2]
        ELSE IF ~serverMinor.ok THEN FALSE
        ELSE IF ~clientMinor.ok THEN FALSE
        ELSE clientMinor.n >= serverMinor.n

\* isVersionCompatible called on its own.
VersionCheck(serverVersion, clientVersion) ==
    /\ ~panicked
    /\ fnCall' = [NoCall EXCEPT
                      !.fn = "isVersionCompatible",
                      !.server = serverVersion,
                      !.client = clientVersion,
                      !.ok = isVersionCompatible(serverVersion,
                                                 clientVersion)]
    /\ UNCHANGED <<regVars, sockVars, netVars, listeners, taskVars, histVars,
                   panicked>>

\* The version step of NewSocket for a server that reports serverVersion:
\* cli.Warn when the versions are not compatible, then construction goes on.
NewSocketVersion(serverVersion, clientVersion) ==
    /\ ~panicked
    /\ fnCall' = [NoCall EXCEPT
                      !.fn = "NewSocket",
                      !.server = serverVersion,
                      !.client = clientVersion,
                      !.warned = ~isVersionCompatible(serverVersion,
                                                      clientVersion),
                      !.err = ErrNil]
    /\ UNCHANGED <<regVars, sockVars, netVars, listeners, taskVars, histVars,
                   panicked>>

\* ------------------------------------------------------- the session store
\* The three functions of session.go called on their own: the caller keeps
\* what each returned.
StoreSave(s) ==
    /\ ~panicked
    /\ sessionStore' = SessionSave(sessionStore, s)
    /\ fnCall' = [NoCall EXCEPT !.fn = "save",
                                !.key = SessionPath(s.Name, s.Username),
                                !.session = s,
                                !.err = SaveError(s)]
    /\ UNCHANGED <<regVars, usernameCache, session, running, err, chanClosed,
                   netVars, listeners, taskVars, histVars, panicked>>

StoreLoad(gameURL, username) ==
    /\ ~panicked
    /\ LET l == loadSession(sessionStore, gameURL, username)
       IN  fnCall' = [NoCall EXCEPT !.fn = "loadSession",
                                   !.key = SessionPath(gameURL, username),
                                   !.session = l.session,
                                   !.err = l.err]
    /\ UNCHANGED <<regVars, sockVars, netVars, listeners, taskVars, histVars,
                   panicked>>

StoreRemove(s) ==
    /\ ~panicked
    /\ sessionStore' = SessionRemove(sessionStore, s)
    /\ fnCall' = [NoCall EXCEPT !.fn = "remove",
                                !.key = SessionPath(s.Name, s.Username),
                                !.session = s]
    /\ UNCHANGED <<regVars, usernameCache, session, running, err, chanClosed,
                   netVars, listeners, taskVars, histVars, panicked>>

\* ----------------------------------------------------------- ResolveUsername
\* The usernames the server would report for its players.
ServerPlayers == ("p1" :> "alice") @@ ("p2" :> "bob")

\* s.ResolveUsername(playerId): return s.usernameCache[playerId]. Nothing is
\* requested from the server and nothing is stored.
ResolveUsernameCall(t, playerId) ==
    /\ ~panicked
    /\ pc[t] = "idle"
    /\ ret' = [ret EXCEPT ![t] =
                  [NoRet EXCEPT
                      !.op = "ResolveUsername",
                      !.arg = playerId,
                      !.name = ResolveUsername(usernameCache, playerId),
                      !.pre = IF playerId \in DOMAIN usernameCache
                              THEN "hit" ELSE "miss"]]
    /\ UNCHANGED <<regVars, sockVars, netVars, listeners, pc, stack, setup,
                   histVars, panicked, fnCall>>

\* --------------------------------------------------- Join, Connect, Spectate
SetupKinds == {"Join", "Connect", "Spectate"}

\* The request each setup call sends and the response it waits for.
RequestOf(kind) ==
    CASE kind = "Join" -> JoinEvent
      [] kind \in {"Connect", "RestoreSession"} -> ConnectEvent
      [] OTHER -> SpectateEvent
ExpectedOf(kind) ==
    CASE kind = "Join" -> JoinedEvent
      [] kind \in {"Connect", "RestoreSession"} -> ConnectedEvent
      [] OTHER -> InfoEvent

\* Faulty variant: a socket that has a session joins again.
JoinRefusalSkipsSession(kind, username) ==
    IF kind = "Join" /\ username = "" THEN "empty username" ELSE ErrNil
\* The checks Join makes before it sends anything.
JoinRefusal(kind, username) ==
    IF kind = "Join" /\ session.Name # "" THEN "already joined a game"
    ELSE IF kind = "Join" /\ username = "" THEN "empty username"
    ELSE ErrNil

\* Event.UnmarshalData on the payload of the response.
UnmarshalOk(data) == data # "{"

\* The name of the game NewSocket read from /info (never empty).
GameName == "game"

\* The player a reconnecting application names: Connect(gameId, playerId,
\* playerSecret).
ConnectPlayer == "p1"
ConnectSecret == "s1"
\* The game every setup call of the application names.
gameId == "g1"

\* The session a setup call stores once its response res has arrived.
SessionOf(kind, username, loaded, res) ==
    CASE kind = "Join" ->
             newSession(GameName, username, gameId, res.origin, res.data)
      [] kind = "Connect" ->
             newSession(GameName, res.data, gameId, ConnectPlayer,
                        ConnectSecret)
      [] kind = "RestoreSession" ->
             newSession(GameName, res.data, loaded.GameId, loaded.PlayerId,
                        loaded.PlayerSecret)
      [] OTHER -> newSession(GameName, "", gameId, "", "")

SetupReturns(t, kind, e) ==
    /\ pc' = [pc EXCEPT ![t] = "idle"]
    /\ setup' = [setup EXCEPT ![t] = NoSetup]
    /\ ret' = [ret EXCEPT ![t] = [NoRet EXCEPT !.op = kind, !.err = e,
                                               !.arg = setup[t].username]]

\* Faulty variant: the error is returned and the session file stays.
SetupFailsKeeps(t, kind, e) ==
    /\ SetupReturns(t, kind, e)
    /\ sessionStore' = sessionStore

\* A setup call returns an error: RestoreSession removes the session file it
\* loaded before it returns the error of its Connect.
SetupFails(t, kind, e) ==
    /\ SetupReturns(t, kind, e)
    /\ sessionStore' =
           IF kind = "RestoreSession"
           THEN SessionRemove(sessionStore, setup[t].loaded)
           ELSE sessionStore

\* s.RestoreSession(username): a load error is returned at once; otherwise
\* Connect is called with the loaded game, player and secret.
RestoreSession(t, username) ==
    /\ ~panicked
    /\ pc[t] = "idle"
    /\ LET l == loadSession(sessionStore, GameName, username)
       IN  IF l.err # ErrNil
           THEN /\ pc' = pc
                /\ setup' = setup
                /\ ret' = [ret EXCEPT ![t] =
                              [NoRet EXCEPT !.op = "RestoreSession",
                                            !.err = l.err,
                                            !.arg = username]]
                /\ UNCHANGED sent
           ELSE /\ sent' = sent \cup {RequestOf("RestoreSession")}
                /\ pc' = [pc EXCEPT ![t] = "hs_read"]
                /\ setup' = [setup EXCEPT ![t] =
                                [NoSetup EXCEPT
                                    !.kind = "RestoreSession",
                                    !.expect = ExpectedOf("RestoreSession"),
                                    !.username = username,
                                    !.loaded = l.session]]
                /\ UNCHANGED ret
    /\ UNCHANGED <<regVars, sockVars, wsOpen, connErr, nread, listeners,
                   stack, histVars, panicked, fnCall>>

\* s.Join / s.Connect / s.Spectate is called: the checks of Join, then
\* sendEventAndWaitForResponse sends the request (Send drops write errors).
SetupCall(t, kind, username) ==
    /\ ~panicked
    /\ pc[t] = "idle"
    /\ IF JoinRefusal(kind, username) # ErrNil
       THEN /\ SetupReturns(t, kind, JoinRefusal(kind, username))
            /\ UNCHANGED sent
       ELSE /\ sent' = sent \cup {RequestOf(kind)}
            /\ pc' = [pc EXCEPT ![t] = "hs_read"]
            /\ setup' = [setup EXCEPT ![t] =
                            [NoSetup EXCEPT !.kind = kind,
                                            !.expect = ExpectedOf(kind),
                                            !.username = username]]
            /\ UNCHANGED ret
    /\ UNCHANGED <<regVars, sockVars, wsOpen, connErr, nread, listeners,
                   stack, histVars, panicked, fnCall>>

\* wrapper, err := s.receiveEvent() in sendEventAndWaitForResponse: any error
\* ends the call; a wrapper goes to triggerEventListeners.
HandshakeRead(t, F) ==
    /\ ~panicked
    /\ pc[t] = "hs_read"
    /\ \E frame \in Readable(F) :
          LET r == receiveEvent(frame, nread + 1)
          IN  /\ ReadEffect(frame)
              /\ IF r.ok
                 THEN /\ stack' = Push(stack, t,
                                       Frame(r.msg,
                                             Registered(eventListeners,
                                                        r.msg.name)))
                      /\ pc' = [pc EXCEPT ![t] = "hs_disp"]
                      /\ setup' = [setup EXCEPT ![t].seen = Append(@, r.msg)]
                      /\ dispatched' = Decoded(dispatched, nread + 1, 1)
                      /\ UNCHANGED <<ret, sessionStore>>
                 ELSE /\ SetupFails(t, setup[t].kind, r.err)
                      /\ UNCHANGED <<stack, dispatched>>
    /\ UNCHANGED <<regVars, usernameCache, session, running, err, chanClosed,
                   wsOpen, sent, listeners, log, removed, runRet, leaves,
                   panicked, fnCall>>

\* Faulty variant: the wait returns whatever wrapper is no error event.
WaitOutcomeAny(name, expect) ==
    IF name = ErrorEvent THEN "fail" ELSE "return"

\* Faulty variant: an error event is dispatched like any other and the wait
\* goes on.
WaitOutcomeNoError(name, expect) ==
    IF name = expect THEN "return" ELSE "continue"

\* What sendEventAndWaitForResponse does with a wrapper it has dispatched:
\* the expected response is returned, an error event fails the call, any
\* other wrapper sends it back to reading.
WaitOutcome(name, expect) ==
    IF name = expect THEN "return"
    ELSE IF name = ErrorEvent THEN "fail"
    ELSE "continue"

\* triggerEventListeners returns into sendEventAndWaitForResponse: the
\* expected response ends the wait and the setup call stores the session and
\* starts the receive goroutine; an error event fails the call with its
\* message; any other event goes back to reading.
HandshakeDispatched(t) ==
    /\ ~panicked
    /\ pc[t] = "hs_disp"
    /\ Len(stack[t]) = 1
    /\ Top(t).cur = 0
    /\ Top(t).pending = {}
    /\ stack' = Pop(stack, t)
    /\ LET m == Top(t).msg
           k == setup[t].kind
           o == WaitOutcome(m.name, setup[t].expect)
       IN  IF o = "return"
           THEN IF k # "Spectate" /\ ~UnmarshalOk(m.data)
                THEN /\ SetupFails(t, k, "unmarshal: unexpected end of input")
                     /\ UNCHANGED <<session, running, listeners>>
                ELSE /\ SetupReturns(t, k, ErrNil)
                     /\ session' = SessionOf(k, setup[t].username,
                                             setup[t].loaded, m)
                     /\ sessionStore' =
                            IF k = "Spectate" THEN sessionStore
                            ELSE SessionSave(sessionStore,
                                             SessionOf(k, setup[t].username,
                                                       setup[t].loaded, m))
                     /\ running' = TRUE
                     /\ listeners' = startListenLoop(listeners)
           ELSE IF o = "fail"
           THEN /\ SetupFails(t, k, m.data)
                /\ UNCHANGED <<session, running, listeners>>
           ELSE /\ pc' = [pc EXCEPT ![t] = "hs_read"]
                /\ UNCHANGED <<setup, ret, session, sessionStore, running,
                               listeners>>
    /\ UNCHANGED <<regVars, usernameCache, err, chanClosed, netVars,
                   histVars, panicked, fnCall>>

\* ------------------------------------------------------------ specifications
AppIds == 4 .. (3 + MaxCallbacks)
\* A removing body names the callback it removes.
Targets(body) == IF body = "remove" THEN AppIds ELSE {0}

\* The application registers its callbacks before it joins.
BeforeSetup(t) == sent = {} /\ pc[t] = "idle"

\* The receive goroutine.
ListenNext(F) ==
    \E i \in 1 .. Len(listeners) :
        \/ ListenCheck(i)
        \/ ListenRead(i, F)
        \/ ListenSetErr(i)
        \/ ListenSetRunning(i)
        \/ ListenClose(i)
        \/ ListenSendClosed(i)

\* The drain entry points on task t, and the dispatch they run.
DrainNext(t) ==
    \/ RunEventLoop(t)
    \/ RunCheck(t)
    \/ RunReceive(t)
    \/ RunClosed(t)
    \/ RunDispatched(t)
    \/ NextReceive(t)
    \/ NextDispatched(t)
    \/ NextEmpty(t)
    \/ Invoke(t)
    \/ OnceRemove(t)

\* The dispatch specification: one application task registers callbacks
\* that do nothing or remove a callback, joins, and drains with RunEventLoop
\* and NextEvent.
DispatchFrames ==
    {BoardMsg, TickMsg, ErrFrame(CloseNormalClosure), ErrFrame(ErrReset)}
DispatchHandshake == {BoardMsg, InfoMsg, JoinedMsg}

Next ==
    \/ listeners = <<>> /\ SetupCall("app", "Join", "alice")
    \/ HandshakeRead("app", DispatchHandshake)
    \/ HandshakeDispatched("app")
    \/ \E e \in AppEvents, b \in {"noop", "remove"} :
          \E g \in Targets(b) : BeforeSetup("app") /\ On("app", e, b, g)
    \/ \E e \in AppEvents, b \in {"noop", "remove"} :
          \E g \in Targets(b) : BeforeSetup("app") /\ Once("app", e, b, g)
    \/ DrainNext("app")
    \/ ListenNext(DispatchFrames)

Spec == Init /\ [][Next]_vars

\* The lifecycle specification: callbacks may call Leave or Close, the
\* application may call them between the drain calls, and the connection
\* ends in every way the receive goroutine tells apart.
LifeFrames ==
    {BoardMsg, EmptyNameMsg, ErrFrame(CloseNormalClosure),
     ErrFrame(CloseAbnormalClosure), ErrFrame(ErrReset)}
LifeHandshake == {JoinedMsg, ConnectedMsg, ErrorMsg}

NextLife ==
    \/ \E k \in {"Join", "Connect"} :
          listeners = <<>> /\ SetupCall("app", k, "alice")
    \/ HandshakeRead("app", LifeHandshake)
    \/ HandshakeDispatched("app")
    \/ \E b \in {"noop", "leave", "close"} :
          BeforeSetup("app") /\ On("app", "board", b, 0)
    \/ BeforeSetup("app") /\ Once("app", "board", "noop", 0)
    \/ leaves = 0 /\ Leave("app")
    \/ Close("app")
    \/ DrainNext("app")
    \/ ListenNext(LifeFrames)

SpecLife == Init /\ [][NextLife]_vars

\* The removal specification: the application also calls RemoveCallback
\* between the drain calls, with an id it was given or with one never issued
\* (0); its callbacks do nothing.
NextRemove ==
    \/ listeners = <<>> /\ SetupCall("app", "Join", "alice")
    \/ HandshakeRead("app", {BoardMsg, JoinedMsg})
    \/ HandshakeDispatched("app")
    \/ \E e \in AppEvents : BeforeSetup("app") /\ On("app", e, "noop", 0)
    \/ BeforeSetup("app") /\ Once("app", "board", "noop", 0)
    \/ \E id \in (AppIds \cap (1 .. (nextId - 1))) \cup {0} :
          RemoveCallback("app", id)
    \/ DrainNext("app")
    \/ ListenNext({BoardMsg, TickMsg, ErrFrame(CloseNormalClosure)})

SpecRemove == Init /\ [][NextRemove]_vars

\* The re-entrant and concurrent specification: a callback may call
\* NextEvent itself, and a second task calls NextEvent while the first
\* drains.
NextReentrant ==
    \/ listeners = <<>> /\ SetupCall("app", "Join", "alice")
    \/ HandshakeRead("app", {JoinedMsg})
    \/ HandshakeDispatched("app")
    \/ \E b \in {"noop", "next"} :
          BeforeSetup("app") /\ On("app", "board", b, 0)
    \/ \E b \in {"noop", "next"} :
          BeforeSetup("app") /\ Once("app", "board", b, 0)
    \/ DrainNext("app")
    \/ NestedReturn("app")
    \/ NextReceive("aux")
    \/ NextDispatched("aux")
    \/ NextEmpty("aux")
    \/ Invoke("aux")
    \/ OnceRemove("aux")
    \/ ListenNext({BoardMsg, ErrFrame(CloseNormalClosure)})

SpecReentrant == Init /\ [][NextReentrant]_vars

\* The setup specification: the application registers callbacks, also for
\* standard events, and makes setup calls until one succeeds; the server
\* answers with responses, unrelated events, error events, frames that do
\* not decode, or a broken connection.
SetupFrames ==
    {BoardMsg, InfoMsg, JoinedMsg, ConnectedMsg, ErrorMsg, EmptyNameMsg,
     BadJsonFrame, BinaryFrame, ErrFrame(ErrReset)}
SetupUsernames(kind) == IF kind = "Join" THEN {"alice", ""} ELSE {""}

NextSetup ==
    \/ \E k \in SetupKinds :
          \E u \in SetupUsernames(k) :
              listeners = <<>> /\ SetupCall("app", k, u)
    \/ HandshakeRead("app", SetupFrames)
    \/ HandshakeDispatched("app")
    \/ \E e \in {"board", ErrorEvent, InfoEvent}, b \in {"noop", "leave"} :
          BeforeSetup("app") /\ On("app", e, b, 0)
    \/ BeforeSetup("app") /\ Once("app", "board", "noop", 0)
    \/ Invoke("app")
    \/ OnceRemove("app")

SpecSetup == Init /\ [][NextSetup]_vars

\* The stall specification: the application joins and calls NextEvent when
\* it likes, or never; the server sends "board" events and closes the
\* connection when it likes. The Go scheduler runs the receive goroutine
\* whenever it can take a step; nothing obliges the application to call.
StallFrames == {BoardMsg}

NextStall ==
    \/ listeners = <<>> /\ SetupCall("app", "Join", "alice")
    \/ HandshakeRead("app", {JoinedMsg})
    \/ HandshakeDispatched("app")
    \/ \E e \in AppEvents : BeforeSetup("app") /\ On("app", e, "noop", 0)
    \/ NextReceive("app")
    \/ NextDispatched("app")
    \/ NextEmpty("app")
    \/ Invoke("app")
    \/ RemoteCloses
    \/ ListenNext(StallFrames)

SpecStall ==
    Init /\ [][NextStall]_vars /\ WF_vars(ListenNext(StallFrames))

\* The leave specification: callbacks are registered for an event of the
\* game and for the standard error event, the roster is cached during and
\* after Join, the application calls Leave, also twice in a row, and the
\* server may close the connection.
LeaveFrames ==
    {BoardMsg, NewPlayerMsg, ErrorMsg, ErrFrame(CloseNormalClosure)}

NextLeave ==
    \/ listeners = <<>> /\ SetupCall("app", "Join", "alice")
    \/ HandshakeRead("app", {InfoMsg, JoinedMsg})
    \/ HandshakeDispatched("app")
    \/ \E e \in {"board", ErrorEvent} :
          BeforeSetup("app") /\ On("app", e, "noop", 0)
    \/ BeforeSetup("app") /\ Once("app", "board", "noop", 0)
    \/ Leave("app")
    \/ DrainNext("app")
    \/ ListenNext(LeaveFrames)

SpecLeave == Init /\ [][NextLeave]_vars

\* The cache specification: the roster changes during and after Join, a
\* callback or the application calls Leave, and the application resolves
\* player ids, cached or not, between its NextEvent calls.
CacheFrames ==
    {BoardMsg, NewPlayerMsg, InfoMsg, LeftMsg, ErrFrame(CloseNormalClosure)}
Resolvable == Players \cup {"p3"}

NextCache ==
    \/ listeners = <<>> /\ SetupCall("app", "Join", "alice")
    \/ HandshakeRead("app", {InfoMsg, NewPlayerMsg, JoinedMsg})
    \/ HandshakeDispatched("app")
    \/ \E b \in {"noop", "leave"} :
          BeforeSetup("app") /\ On("app", "board", b, 0)
    \/ Leave("app")
    \/ \E p \in Resolvable : ResolveUsernameCall("app", p)
    \/ NextReceive("app")
    \/ NextDispatched("app")
    \/ NextEmpty("app")
    \/ Invoke("app")
    \/ ListenNext(CacheFrames)

SpecCache == Init /\ [][NextCache]_vars

\* The store specification: sessions of two games and two users, and one
\* without a game URL, are saved, loaded and removed in any order.
StoreURLs == {"", "game", "other"}
StoreUsers == {"alice", "bob"}
StoreSessions ==
    {newSession(g, u, i, "p1", k) :
        g \in StoreURLs, u \in StoreUsers, i \in {"g1", "g2"},
        k \in {"s1", "s2"}}

NextStore ==
    \/ \E s \in StoreSessions : StoreSave(s)
    \/ \E g \in StoreURLs, u \in StoreUsers : StoreLoad(g, u)
    \/ \E s \in StoreSessions : StoreRemove(s)

SpecStore == Init /\ [][NextStore]_vars

\* The restore specification: an earlier run may have saved the session of
\* "alice" before the application makes its first call; it calls
\* RestoreSession, again after a failure, and the server answers the connect
\* request with the response, an error event, an unrelated event, a frame
\* that does not decode or a broken connection.
RestoreFrames ==
    {ConnectedMsg, ErrorMsg, BoardMsg, BadJsonFrame, ErrFrame(ErrReset)}

NextRestore ==
    \/ BeforeSetup("app") /\ ret["app"].op = "none"
          /\ StoreSave(newSession(GameName, "alice", gameId, ConnectPlayer,
                                  ConnectSecret))
    \/ \E u \in StoreUsers : listeners = <<>> /\ RestoreSession("app", u)
    \/ HandshakeRead("app", RestoreFrames)
    \/ HandshakeDispatched("app")
    \/ BeforeSetup("app") /\ On("app", "board", "noop", 0)
    \/ NextReceive("app")
    \/ NextDispatched("app")
    \/ NextEmpty("app")
    \/ Invoke("app")
    \/ ListenNext({BoardMsg, ErrFrame(CloseNormalClosure)})

SpecRestore == Init /\ [][NextRestore]_vars

\* The version specification: the server reports any string of up to
\* MaxVersionLen characters, the client's own version is any version of up to
\* three characters written as decimal numbers; each run makes one call.
RECURSIVE StringsOf(_)
StringsOf(n) ==
    IF n = 0 THEN {<<>>}
    ELSE StringsOf(n - 1)
             \cup {Append(s, c) : s \in StringsOf(n - 1), c \in VersionChars}

\* A decimal number as one writes it: digits, no leading zero.
Numeral(p) ==
    /\ p # <<>>
    /\ \A i \in DOMAIN p : p[i] \in Digits
    /\ Len(p) = 1 \/ p[1] # "0"
\* major or major.minor (more parts may follow), both decimal numbers.
WellFormed(v) ==
    /\ Numeral(Split(v)[1])
    /\ Len(Split(v)) >= 2 => Numeral(Split(v)[2])

ServerVersions == StringsOf(MaxVersionLen)
ClientVersions == {v \in StringsOf(MaxVersionLen - 1) : WellFormed(v)}

NextVersion ==
    \/ /\ fnCall.fn = "none"
       /\ \E v \in ServerVersions, c \in ClientVersions : VersionCheck(v, c)
    \/ /\ fnCall.fn = "none"
       /\ \E v \in ServerVersions, c \in ClientVersions :
              NewSocketVersion(v, c)

SpecVersion == Init /\ [][NextVersion]_vars

\* The reuse specification: the application makes setup calls whenever it is
\* idle, also on a socket that is in a game or has ended, and may call Close;
\* the server answers every request, sends a frame that does not decode, or
\* closes the connection.
ReuseFrames ==
    {JoinedMsg, ConnectedMsg, InfoMsg, EmptyNameMsg,
     ErrFrame(CloseNormalClosure)}

NextReuse ==
    \/ \E k \in SetupKinds : SetupCall("app", k, "alice")
    \/ RestoreSession("app", "alice")
    \/ HandshakeRead("app", ReuseFrames)
    \/ HandshakeDispatched("app")
    \/ Close("app")
    \/ NextReceive("app")
    \/ NextDispatched("app")
    \/ NextEmpty("app")
    \/ Invoke("app")
    \/ ListenNext(ReuseFrames)

SpecReuse == Init /\ [][NextReuse]_vars

\* The concurrent specification: one task drains with RunEventLoop and
\* NextEvent while a second task registers and removes callbacks whenever it
\* likes.
ConcurrentFrames == {BoardMsg, TickMsg, ErrFrame(CloseNormalClosure)}

NextConcurrent ==
    \/ listeners = <<>> /\ SetupCall("app", "Join", "alice")
    \/ HandshakeRead("app", {JoinedMsg})
    \/ HandshakeDispatched("app")
    \/ BeforeSetup("app") /\ On("app", "board", "noop", 0)
    \/ \E e \in AppEvents : On("aux", e, "noop", 0)
    \/ Once("aux", "board", "noop", 0)
    \/ \E id \in AppIds \cap (1 .. (nextId - 1)) : RemoveCallback("aux", id)
    \/ DrainNext("app")
    \/ ListenNext(ConcurrentFrames)

SpecConcurrent == Init /\ [][NextConcurrent]_vars

\* The secret specification: the server answers a join request with the
\* joined event and a player_secret event, in either order and with events
\* of the game in between.
SecretFrames ==
    {JoinedMsg, PlayerSecretMsg, BoardMsg, ErrFrame(CloseNormalClosure)}

NextSecret ==
    \/ listeners = <<>> /\ SetupCall("app", "Join", "alice")
    \/ HandshakeRead("app", SecretFrames)
    \/ HandshakeDispatched("app")
    \/ \E e \in {"board", PlayerSecretEvent} :
          BeforeSetup("app") /\ On("app", e, "noop", 0)
    \/ NextReceive("app")
    \/ NextDispatched("app")
    \/ NextEmpty("app")
    \/ Invoke("app")
    \/ ListenNext(SecretFrames)

SpecSecret == Init /\ [][NextSecret]_vars

\* The refusal specification: the application makes setup calls whenever it
\* is idle, with and without a username, before and after one succeeded; the
\* server answers with the response, a response whose payload is cut off, an
\* error event, an unrelated event or a broken connection.
RefuseFrames ==
    {JoinedMsg, BadJoinedMsg, ConnectedMsg, BadConnectedMsg, InfoMsg,
     ErrorMsg, BoardMsg, ErrFrame(ErrReset)}

NextRefuse ==
    \/ \E k \in SetupKinds :
          \E u \in SetupUsernames(k) : SetupCall("app", k, u)
    \/ HandshakeRead("app", RefuseFrames)
    \/ HandshakeDispatched("app")
    \/ \E b \in {"noop", "leave"} :
          BeforeSetup("app") /\ On("app", "board", b, 0)
    \/ NextReceive("app")
    \/ NextDispatched("app")
    \/ NextEmpty("app")
    \/ Invoke("app")
    \/ ListenNext({BoardMsg, ErrFrame(ErrReset)})

SpecRefuse == Init /\ [][NextRefuse]_vars

\* The quit specification: the application joins, drains with RunEventLoop
\* or NextEvent, and calls Leave or Close, itself or from a callback; the
\* server sends "board" events and may close the connection. The Go scheduler
\* runs the receive goroutine whenever it can take a step, and a call of the
\* application that is in progress goes on; nothing obliges the application
\* to make another call.
QuitFrames == {BoardMsg, ErrFrame(CloseNormalClosure)}

\* The steps inside a drain call that has been made.
InProgress(t) ==
    \/ RunCheck(t)
    \/ RunReceive(t)
    \/ RunClosed(t)
    \/ RunDispatched(t)
    \/ NextDispatched(t)
    \/ Invoke(t)

NextQuit ==
    \/ listeners = <<>> /\ SetupCall("app", "Join", "alice")
    \/ HandshakeRead("app", {JoinedMsg})
    \/ HandshakeDispatched("app")
    \/ \E b \in {"noop", "leave", "close"} :
          BeforeSetup("app") /\ On("app", "board", b, 0)
    \/ RunEventLoop("app")
    \/ NextReceive("app")
    \/ NextEmpty("app")
    \/ InProgress("app")
    \/ Leave("app")
    \/ Close("app")
    \/ ListenNext(QuitFrames)

SpecQuit ==
    /\ Init
    /\ [][NextQuit]_vars
    /\ WF_vars(ListenNext(QuitFrames))
    /\ WF_vars(InProgress("app"))

\* The send specification: the application sends events of the game, with
\* data that can or cannot be encoded, makes setup calls and calls Close, in
\* any order; the server answers and may close the connection.
SendFrames == {JoinedMsg, ConnectedMsg, InfoMsg, BoardMsg}

NextSend ==
    \/ \E k \in SetupKinds : listeners = <<>> /\ SetupCall("app", k, "alice")
    \/ HandshakeRead("app", SendFrames)
    \/ HandshakeDispatched("app")
    \/ \E e \in AppEvents, enc \in BOOLEAN : SendCall("app", e, enc)
    \/ Close("app")
    \/ NextReceive("app")
    \/ NextDispatched("app")
    \/ NextEmpty("app")
    \/ Invoke("app")
    \/ ListenNext({BoardMsg, ErrFrame(CloseNormalClosure)})

SpecSend == Init /\ [][NextSend]_vars

\* -------------------------------------------------------------- history
\* How often the closure stored under id was invoked, in all and for the
\* message numbered seq.
Count(id) == Cardinality({i \in DOMAIN log : log[i].id = id})
CountFor(seq, id) ==
    Cardinality({i \in DOMAIN log : log[i].id = id /\ log[i].seq = seq})
Issued == 1 .. (nextId - 1)
\* The activations of triggerEventListeners whose range loop has ended.
Done(f) == f.pending = {} /\ f.cur = 0
AllFrames ==
    UNION {{stack[t][i] : i \in 1 .. Len(stack[t])} : t \in Tasks}

\* C1: one dispatch of a message named N invokes every callback registered
\* under N exactly once and no callback registered under another name; the
\* same function registered twice is invoked twice.
ExactlyTheRegistered ==
    \A t \in Tasks :
        \A i \in 1 .. Len(stack[t]) :
            LET f == stack[t][i]
            IN  \A id \in Issued :
                    /\ CountFor(f.msg.seq, id) <= 1
                    /\ callbacks[id].event # f.msg.name =>
                           CountFor(f.msg.seq, id) = 0
                    /\ (Done(f)
                        /\ id \in Registered(eventListeners, f.msg.name)) =>
                           CountFor(f.msg.seq, id) = 1

\* A board dispatch has ended in which two registrations of one function
\* were both invoked, and a callback of another name was not.
ExactlyTheRegisteredWitness ==
    \E f \in AllFrames :
        /\ Done(f)
        /\ f.msg.name = "board"
        /\ \E a, b \in Registered(eventListeners, "board") :
              /\ a # b
              /\ callbacks[a] = callbacks[b]
              /\ CountFor(f.msg.seq, a) = 1
              /\ CountFor(f.msg.seq, b) = 1
        /\ Registered(eventListeners, InfoEvent) = {3}
        /\ CountFor(f.msg.seq, 3) = 0

\* C2: with one task draining, callbacks run in the order the transport
\* delivered the messages: every invocation for a message read earlier comes
\* before every invocation for a message read later.
InDeliveryOrder ==
    \A i, j \in DOMAIN log : i < j => log[i].seq <= log[j].seq

\* Two messages handed over by the receive goroutine have both been
\* dispatched to a callback.
InDeliveryOrderWitness ==
    \E i, j \in DOMAIN log :
        /\ log[i].seq < log[j].seq
        /\ log[i].via # "hs_disp"
        /\ log[j].via # "hs_disp"

\* C3: a callback registered with Once is invoked once at most, and by the
\* end of the first dispatch of its event it has been invoked (unless another
\* callback removed it first) and is registered no longer.
RemovedByOther(id) ==
    \E r \in Issued :
        /\ r # id
        /\ callbacks[r].body = "remove"
        /\ callbacks[r].target = id
        /\ Count(r) >= 1
OnceFiresOnce ==
    \A id \in Issued :
        callbacks[id].once =>
            /\ Count(id) <= 1
            /\ \A f \in AllFrames :
                   (Done(f) /\ f.msg.name = callbacks[id].event) =>
                       /\ id \notin Registered(eventListeners, f.msg.name)
                       /\ Count(id) = 1 \/ RemovedByOther(id)

\* A one-shot callback fired for one message, and the dispatch of the next
\* frame on the wire, of the same name, has ended without invoking it.
OnceFiresOnceWitness ==
    \E id \in Issued :
        /\ callbacks[id].once
        /\ Count(id) = 1
        /\ \E f \in AllFrames, i \in DOMAIN log :
              /\ log[i].id = id
              /\ log[i].via # "hs_disp"
              /\ Done(f)
              /\ f.msg.name = callbacks[id].event
              /\ f.msg.seq = log[i].seq + 1

\* C6: when callback a removes callback b of the same event from inside its
\* invocation, nothing crashes, a is invoked once in that dispatch, and no
\* later dispatch invokes b.
Removes(a, b) ==
    /\ a # b
    /\ callbacks[a].body = "remove"
    /\ callbacks[a].target = b
    /\ b \in Issued
    /\ callbacks[a].event = callbacks[b].event
RemoveInsideDispatch ==
    /\ ~panicked
    /\ \A a, b \in Issued :
          Removes(a, b) =>
              \A i \in DOMAIN log :
                  log[i].id = a =>
                      /\ CountFor(log[i].seq, a) = 1
                      /\ \A j \in DOMAIN log :
                             (i < j /\ log[j].id = b) =>
                                 log[j].seq = log[i].seq

\* a removed b during one dispatch, and a later dispatch of the same event
\* has ended with a invoked again and b not.
RemoveInsideDispatchWitness ==
    \E a, b \in Issued :
        /\ Removes(a, b)
        /\ \E i \in DOMAIN log, f \in AllFrames :
              /\ log[i].id = a
              /\ Done(f)
              /\ f.msg.name = callbacks[a].event
              /\ f.msg.seq > log[i].seq
              /\ CountFor(f.msg.seq, a) = 1
              /\ CountFor(f.msg.seq, b) = 0

\* C5: once RemoveCallback(id) has returned no dispatch invokes id again;
\* every other callback stays registered and is invoked as before; a second
\* RemoveCallback(id), or one with an id never issued, changes nothing.
CountIn(l, id) == Cardinality({i \in DOMAIN l : l[i].id = id})
RemovedStaysRemoved ==
    /\ []ExactlyTheRegistered
    /\ [][/\ \A id \in removed : CountIn(log', id) = CountIn(log, id)
          /\ nextId' = nextId =>
                \A n \in AppEvents \cup StandardEvents :
                    Registered(eventListeners', n) =
                        Registered(eventListeners, n) \ (removed' \ removed)
         ]_vars

\* RemoveCallback was called with a callback that had been invoked and with
\* an id never issued, and a later dispatch of the same event has ended
\* with another callback invoked and the removed one not.
RemovedStaysRemovedWitness ==
    \E id \in removed \cap Issued, other \in Issued \ removed :
        /\ 0 \in removed
        /\ ~callbacks[id].once
        /\ callbacks[other].event = callbacks[id].event
        /\ Count(id) = 1
        /\ \E f \in AllFrames :
              /\ Done(f)
              /\ f.msg.name = callbacks[id].event
              /\ CountFor(f.msg.seq, id) = 0
              /\ CountFor(f.msg.seq, other) = 1

\* C4: a callback registered with Once is invoked once at most, also when a
\* second task dispatches a matching message at the same time or when the
\* callback itself calls NextEvent before it returns.
OnceAtMostOnce ==
    \A id \in Issued : callbacks[id].once => Count(id) <= 1

\* C8: NextEvent returns (message, true, nil) after dispatching a message
\* that was ready, (zero, false, nil) when none is ready and the channel is
\* open, and (zero, false, s.err) with s.err set when the channel is closed;
\* in the last two cases it invokes no callback.
NextEventOutcome(r) ==
    CASE r.pre = "message" ->
             /\ r.ok
             /\ r.err = ErrNil
             /\ r.seq > 0
             /\ \A id \in Registered(eventListeners, r.name) :
                    CountFor(r.seq, id) = 1
      [] r.pre = "empty" -> ~r.ok /\ r.err = ErrNil /\ r.seq = 0
      [] r.pre = "closed" ->
             ~r.ok /\ r.err # ErrNil /\ r.err = err /\ r.seq = 0
      [] OTHER -> FALSE
NextEventOutcomes ==
    /\ [](\A t \in Tasks :
             ret[t].op = "NextEvent" => NextEventOutcome(ret[t]))
    /\ [][\A t \in Tasks :
             (ret'[t].op = "NextEvent" /\ ~ret'[t].ok /\ pc[t] = "idle") =>
                 log' = log]_vars

\* NextEvent has reported the closed channel with the error of the
\* connection, after an earlier NextEvent dispatched a message.
NextEventOutcomesWitness ==
    /\ ret["app"].op = "NextEvent"
    /\ ret["app"].pre = "closed"
    /\ ret["app"].err = ErrReset
    /\ \E i \in DOMAIN log : log[i].via = "next_disp"

RemoteEnd(e) ==
    /\ Len(listeners) = 1
    /\ listeners[1].err = e
    /\ listeners[1].pc \in {"setrunning", "close", "check", "done"}
    /\ wsOpen
    /\ LeaveEvent \notin sent

\* C7: after a clean close by the remote side RunEventLoop returns nil, and
\* every NextEvent after that returns ok = false and ErrClosed.
CleanCloseReported ==
    (RemoteEnd(CloseNormalClosure) /\ runRet.started) =>
        /\ runRet.err = ErrNil
        /\ ret["app"].op = "NextEvent" =>
               ~ret["app"].ok /\ ret["app"].err = ErrClosed

\* C10: after a read error that is no clean close RunEventLoop returns that
\* error, and every NextEvent after that returns ok = false and that error.
TerminalErrorReported ==
    \A e \in {ErrReset, CloseAbnormalClosure, ErrDecodeFailed} :
        (RemoteEnd(e) /\ runRet.started) =>
            /\ runRet.err = e
            /\ ret["app"].op = "NextEvent" =>
                   ~ret["app"].ok /\ ret["app"].err = e

\* C11: the wait of a setup call returns the first wrapper it read whose name
\* is the expected one, never reads past such a wrapper, and every wrapper it
\* read has by then been dispatched, in the order read, to the callbacks
\* registered for it.
HandshakeReturnsFirstExpected ==
    [][\A t \in Tasks :
          LET seen == setup[t].seen
              n == Len(seen)
          IN  /\ (pc[t] = "hs_disp" /\ pc'[t] = "hs_read") =>
                     Top(t).msg.name # setup[t].expect
              /\ (pc[t] = "hs_disp" /\ pc'[t] = "idle"
                  /\ ret'[t].err = ErrNil) =>
                     /\ n >= 1
                     /\ Top(t).msg = seen[n]
                     /\ seen[n].name = setup[t].expect
                     /\ \A j \in 1 .. (n - 1) :
                            seen[j].name # setup[t].expect
                     /\ session' = SessionOf(setup[t].kind,
                                             setup[t].username,
                                             setup[t].loaded, seen[n])
                     /\ \A j \in 1 .. n :
                            \A id \in Registered(eventListeners,
                                                 seen[j].name) :
                                CountFor(seen[j].seq, id) = 1
                     /\ \A a, b \in DOMAIN log :
                            a < b => log[a].seq <= log[b].seq
      ]_vars

\* Join has succeeded after its wait dispatched a "board" event to a callback
\* of the application.
HandshakeReturnsFirstExpectedWitness ==
    /\ ret["app"].op = "Join"
    /\ ret["app"].err = ErrNil
    /\ session.PlayerId = "p1"
    /\ \E i \in DOMAIN log :
          /\ log[i].via = "hs_disp"
          /\ callbacks[log[i].id].event = "board"

\* C12: an error event dispatched while a setup call waits makes the call
\* return an error with the message the event carries; the session is not
\* changed by a call that fails, and no receive goroutine is started.
ErrorEventFailsSetup ==
    [][\A t \in Tasks :
          /\ (pc[t] = "hs_disp" /\ pc'[t] # "hs_disp"
              /\ Top(t).msg.name = ErrorEvent) =>
                 /\ pc'[t] = "idle"
                 /\ ret'[t].op = setup[t].kind
                 /\ ret'[t].err = Top(t).msg.data
                 /\ ret'[t].err \notin
                        {ErrNil, ErrDecodeFailed, ErrInvalidMessageType,
                         ErrReset}
                 /\ session' = session
                 /\ listeners' = listeners
                 /\ running' = running
          /\ (pc[t] \in {"hs_read", "hs_disp"}
              /\ (session' # session \/ listeners' # listeners)) =>
                 (pc'[t] = "idle" /\ ret'[t].err = ErrNil)
      ]_vars

\* A setup call has failed with the message of the server's error event, and
\* there is neither a session nor a receive goroutine.
ErrorEventFailsSetupWitness ==
    /\ ret["app"].op \in SetupKinds
    /\ ret["app"].err = ErrorMsg.data
    /\ session = NoSession
    /\ listeners = <<>>

\* C13: when the wait of Join has read an info event listing p2 as "bob"
\* before the joined event, and the application has not called Leave, Join
\* succeeds with the origin of the joined event as the session's player, and
\* ResolveUsername("p2") is "bob" as soon as Join has returned.
JoinCachesRoster ==
    [][\A t \in Tasks :
          LET seen == setup[t].seen
              n == Len(seen)
          IN  (/\ pc[t] = "hs_disp"
               /\ pc'[t] = "idle"
               /\ setup[t].kind = "Join"
               /\ Top(t).msg.name = JoinedEvent
               /\ Top(t).msg.origin = "p1"
               /\ \E j \in 1 .. (n - 1) :
                      seen[j].name = InfoEvent /\ seen[j].data = "p2=bob"
               /\ leaves = 0) =>
                  /\ ret'[t].op = "Join"
                  /\ ret'[t].err = ErrNil
                  /\ session'.PlayerId = "p1"
                  /\ ResolveUsername(usernameCache', "p2") = "bob"
                  /\ sent' = sent
      ]_vars

\* Join has succeeded for player p1 after the built-in info callback ran
\* during the wait, and the lookup of p2 gives "bob".
JoinCachesRosterWitness ==
    /\ ret["app"].op = "Join"
    /\ ret["app"].err = ErrNil
    /\ session.PlayerId = "p1"
    /\ ResolveUsername(usernameCache, "p2") = "bob"
    /\ \E i \in DOMAIN log : log[i].id = 3 /\ log[i].via = "hs_disp"

\* The errors receiveEvent makes of a frame that is no text frame, is not
\* JSON, or names no event.
FramingErrors == {ErrInvalidMessageType, ErrDecodeFailed}

\* C14: a frame that does not decode is skipped by the receive goroutine: it
\* is never recorded as the terminal error, and while the connection is
\* intact the channel stays open.
FramingErrorSkipped ==
    /\ err \notin FramingErrors
    /\ (wsOpen /\ connErr = ErrNil) => ~chanClosed

\* C15: a frame that does not decode is skipped by the wait of a setup call:
\* no setup call returns a decode failure.
DecodeFailureSkipped ==
    \A t \in Tasks :
        ret[t].op \in SetupKinds => ret[t].err \notin FramingErrors

\* C16: once every receive goroutine has exited the channel is closed.
ExitClosesQueue ==
    (listeners # <<>> /\ \A i \in DOMAIN listeners : listeners[i].pc = "done")
        => chanClosed

\* C17: a receive goroutine that holds a wrapper to hand over does not stay
\* blocked on it when the connection is closed: it goes on to record the
\* terminal error and to close the channel.
ClosureObserved ==
    (SendersReady # {} /\ connErr # ErrNil) ~> chanClosed

\* The event names a callback can be registered for.
EventNames == AppEvents \cup StandardEvents

\* C18 as stated: after Leave has returned only the three built-in callbacks
\* are registered, under whatever event name.
LeaveRemovesAllAppCallbacks ==
    \A t \in Tasks :
        (ret[t].op = "Leave" /\ pc[t] = "idle") =>
            \A n \in EventNames :
                Registered(eventListeners, n) \subseteq BuiltinIds

\* C18 as amended: Leave removes every callback registered for an event that
\* is not a standard event, and keeps every callback registered for a
\* standard event, built-in or not.
LeaveRemovesNonStandard ==
    [][leaves' # leaves =>
          \A n \in EventNames :
              Registered(eventListeners', n) =
                  IF IsStandardEvent(n) THEN Registered(eventListeners, n)
                  ELSE {}
      ]_vars

\* Leave has returned: a callback the application registered for "board" is
\* gone, one it registered for the error event is still registered.
LeaveRemovesNonStandardWitness ==
    /\ ret["app"].op = "Leave"
    /\ \E a, b \in AppIds \cap Issued :
          /\ callbacks[a].event = "board"
          /\ a \notin Registered(eventListeners, "board")
          /\ callbacks[b].event = ErrorEvent
          /\ b \in Registered(eventListeners, ErrorEvent)

\* C19: Leave empties the username cache, removes the session file and sends
\* the leave event; it neither closes the connection or the channel nor
\* records an error.
LeaveKeepsTransport ==
    [][leaves' # leaves =>
          /\ usernameCache' = <<>>
          /\ session.Name # "" =>
                 SessionPath(session.Name, session.Username)
                     \notin DOMAIN sessionStore'
          /\ LeaveEvent \in sent'
          /\ session' = session
          /\ wsOpen' = wsOpen
          /\ connErr' = connErr
          /\ chanClosed' = chanClosed
          /\ err' = err
          /\ panicked' = panicked
      ]_vars

\* Leave has returned after Join had stored a session and cached a player:
\* cache and session directory are empty, the leave event is sent, and the
\* connection and the channel are open.
LeaveKeepsTransportWitness ==
    /\ ret["app"].op = "Leave"
    /\ session.Name # ""
    /\ sessionStore = <<>>
    /\ usernameCache = <<>>
    /\ \E i \in DOMAIN log : log[i].id \in {1, 3}
    /\ LeaveEvent \in sent
    /\ wsOpen
    /\ ~chanClosed
    /\ err = ErrNil

\* C20: a Leave called right after a Leave finds the cache empty and no
\* callback registered for a non-standard event, changes neither, and does
\* not panic.
LeaveTwice ==
    [][\A t \in Tasks :
          (pc[t] = "idle" /\ ret[t].op = "Leave" /\ leaves' = leaves + 1) =>
              /\ usernameCache = <<>>
              /\ \A n \in AppEvents : Registered(eventListeners, n) = {}
              /\ eventListeners' = eventListeners
              /\ usernameCache' = usernameCache
              /\ sessionStore' = sessionStore
              /\ ~panicked'
      ]_vars

\* Two calls of Leave in a row have returned, after Join had succeeded and
\* the application had registered a callback for "board".
LeaveTwiceWitness ==
    /\ ret["app"].op = "Leave"
    /\ leaves = 2
    /\ session.Name # ""
    /\ \E a \in AppIds \cap Issued : callbacks[a].event = "board"

\* C21: ResolveUsername returns the cached name of a cached player; for a
\* player that is not cached it asks the server, stores the answer in the
\* cache and returns it, and returns "" when the server knows no such player
\* (stated for a socket that is in a game).
ResolveLooksUp ==
    [][\A t \in Tasks :
          (ret'[t] # ret[t] /\ ret'[t].op = "ResolveUsername"
           /\ session.Name # "") =>
              LET p == ret'[t].arg
              IN  IF p \in DOMAIN usernameCache
                  THEN /\ ret'[t].name = usernameCache[p]
                       /\ usernameCache' = usernameCache
                  ELSE IF p \in DOMAIN ServerPlayers
                  THEN /\ ret'[t].name = ServerPlayers[p]
                       /\ usernameCache' =
                              CacheUser(usernameCache, p, ServerPlayers[p])
                  ELSE /\ ret'[t].name = ""
                       /\ usernameCache' = usernameCache
      ]_vars

\* What a dispatched message does to a username mapping c.
ApplyMsg(c, m) ==
    CASE m.name = NewPlayerEvent ->
             [q \in DOMAIN c \cup {m.origin} |->
                 IF q = m.origin THEN m.data ELSE c[q]]
      [] m.name = InfoEvent ->
             LET r == InfoPlayers(m.data)
             IN  [q \in DOMAIN c \cup DOMAIN r |->
                     IF q \in DOMAIN r THEN r[q] ELSE c[q]]
      [] m.name = LeftEvent -> [q \in DOMAIN c \ {m.origin} |-> c[q]]
      [] OTHER -> c

\* The messages of the first n invocations of built-in callbacks, applied in
\* order to the empty mapping.
RECURSIVE FoldLog(_)
FoldLog(n) ==
    IF n = 0 THEN <<>>
    ELSE IF log[n].id \in BuiltinIds
    THEN ApplyMsg(FoldLog(n - 1), log[n].msg)
    ELSE FoldLog(n - 1)

\* A step in which Leave runs: called by the application (the count of
\* Leave calls stops at MaxLeaves, but then the call shows in what the
\* application's last call was) or by the callback just invoked.
LeaveStep ==
    \/ leaves' # leaves
    \/ \E t \in Tasks : ret'[t].op = "Leave" /\ ret[t].op # "Leave"
    \/ /\ Len(log') > Len(log)
       /\ callbacks[log'[Len(log')].id].body = "leave"

\* C22: the username cache is the fold of the dispatched messages: as long
\* as Leave has not been called it equals the new-player, info and left
\* messages dispatched so far applied in order to the empty mapping; every
\* step that dispatches such a message to its built-in callback applies it to
\* the cache, every Leave empties the cache, and no other step changes it.
CacheIsFold ==
    /\ [](leaves = 0 => usernameCache = FoldLog(Len(log)))
    /\ [][/\ LeaveStep => usernameCache' = <<>>
          /\ (~LeaveStep /\ Len(log') > Len(log)) =>
                 LET e == log'[Len(log')]
                 IN  usernameCache' =
                         IF e.id \in BuiltinIds
                         THEN ApplyMsg(usernameCache, e.msg)
                         ELSE usernameCache
          /\ (~LeaveStep /\ log' = log) => usernameCache' = usernameCache
         ]_vars

\* An info message naming p2 and then a left message of p2 have been
\* dispatched to their built-in callbacks and Leave has not been called: the
\* cache, which held p2 in between, is empty again.
CacheIsFoldWitness ==
    /\ leaves = 0
    /\ Len(log) >= 2
    /\ log[Len(log)].id \in BuiltinIds
    /\ log[Len(log)].msg.name = LeftEvent
    /\ log[Len(log)].msg.origin = "p2"
    /\ \E i \in 1 .. (Len(log) - 1) :
          /\ log[i].id \in BuiltinIds
          /\ log[i].msg.name = InfoEvent
          /\ "p2" \in DOMAIN FoldLog(i)
    /\ usernameCache = <<>>
    /\ pc["app"] = "idle"

\* C23: a loadSession that follows a successful save with the same game URL
\* and username returns no error and a session with the saved game id,
\* player id and player secret; a loadSession that follows a remove with the
\* same key returns the not-found error; a save of a session without a game
\* URL returns an error and writes nothing.
StoreRoundTrip ==
    [][/\ (fnCall.fn = "save" /\ fnCall.err = ErrNil
           /\ fnCall'.fn = "loadSession" /\ fnCall'.key = fnCall.key) =>
              /\ fnCall'.err = ErrNil
              /\ fnCall'.session.GameId = fnCall.session.GameId
              /\ fnCall'.session.PlayerId = fnCall.session.PlayerId
              /\ fnCall'.session.PlayerSecret = fnCall.session.PlayerSecret
       /\ (fnCall.fn = "remove"
           /\ fnCall'.fn = "loadSession" /\ fnCall'.key = fnCall.key) =>
              fnCall'.err = ErrNotExist
       /\ (fnCall'.fn = "save" /\ fnCall'.session.Name = "") =>
              /\ fnCall'.err # ErrNil
              /\ sessionStore' = sessionStore
      ]_vars

\* A saved session has been loaded back while the other user's file, with
\* another secret, is on disk too.
StoreRoundTripWitness ==
    /\ fnCall.fn = "loadSession"
    /\ fnCall.err = ErrNil
    /\ fnCall.session = newSession("game", "alice", "g2", "p1", "s2")
    /\ SessionPath("game", "bob") \in DOMAIN sessionStore
    /\ sessionStore[SessionPath("game", "bob")].player_secret = "s1"

\* C24: when RestoreSession has loaded a session and its Connect fails, the
\* session file of that username is gone when the error is returned, and a
\* RestoreSession for the same username called next returns the load error
\* and sends nothing; a RestoreSession that finds no session file returns the
\* load error, sends nothing and changes nothing of the socket; a connect
\* request is sent only for a session that was loaded.
RestoreRemovesStale ==
    [][\A t \in Tasks :
          /\ (pc[t] \in {"hs_read", "hs_disp"} /\ pc'[t] = "idle"
              /\ setup[t].kind = "RestoreSession"
              /\ ret'[t].err # ErrNil) =>
                 /\ ret'[t].op = "RestoreSession"
                 /\ SessionPath(GameName, setup[t].username)
                        \notin DOMAIN sessionStore'
          /\ (ret[t].op = "RestoreSession" /\ ret[t].err # ErrNil
              /\ pc[t] = "idle"
              /\ \/ /\ pc'[t] = "hs_read"
                    /\ setup'[t].kind = "RestoreSession"
                    /\ setup'[t].username = ret[t].arg
                 \/ /\ pc'[t] = "idle"
                    /\ ret'[t] # ret[t]
                    /\ ret'[t].op = "RestoreSession"
                    /\ ret'[t].arg = ret[t].arg) =>
                 /\ pc'[t] = "idle"
                 /\ ret'[t].err = ErrNotExist
                 /\ sent' = sent
          /\ (pc[t] = "idle" /\ pc'[t] = "idle" /\ ret'[t] # ret[t]
              /\ ret'[t].op = "RestoreSession") =>
                 /\ ret'[t].err = ErrNotExist
                 /\ SessionPath(GameName, ret'[t].arg)
                        \notin DOMAIN sessionStore
                 /\ UNCHANGED <<regVars, sockVars, netVars, listeners, stack,
                                setup>>
          /\ (pc[t] = "idle" /\ pc'[t] = "hs_read"
              /\ setup'[t].kind = "RestoreSession") =>
                 /\ SessionPath(GameName, setup'[t].username)
                        \in DOMAIN sessionStore
                 /\ setup'[t].loaded.PlayerSecret =
                        sessionStore[SessionPath(GameName,
                                                 setup'[t].username)]
                            .player_secret
      ]_vars

\* RestoreSession("alice") has loaded the saved session, sent the connect
\* request and failed on the server's error event; the file is gone and the
\* next RestoreSession("alice") has returned the load error.
RestoreRemovesStaleWitness ==
    /\ ret["app"].op = "RestoreSession"
    /\ ret["app"].arg = "alice"
    /\ ret["app"].err = ErrNotExist
    /\ ConnectEvent \in sent
    /\ nread = 1
    /\ sessionStore = <<>>
    /\ fnCall.fn = "save"
    /\ listeners = <<>>

\* The major and the minor number of a well-formed version; no minor part
\* counts as minor 0.
MajorOf(v) == Atoi(Split(v)[1]).n
MinorOf(v) == IF Len(Split(v)) = 1 THEN 0 ELSE Atoi(Split(v)[2]).n

\* The rule for a server and a client version.
CompatibleByRule(server, client) ==
    IF MajorOf(server) # MajorOf(client) THEN FALSE
    ELSE IF MajorOf(client) = 0 THEN MinorOf(server) = MinorOf(client)
    ELSE MinorOf(client) >= MinorOf(server)

\* C25: for versions written as decimal numbers, isVersionCompatible is
\* false when the majors differ, with major zero it is true exactly when the
\* minors are equal, with another major exactly when the client's minor is at
\* least the server's, and a version without a minor part counts as minor 0;
\* NewSocket warns exactly when the versions are not compatible and never
\* fails because of the version, whatever the server reports.
VersionRule ==
    /\ (fnCall.fn = "isVersionCompatible" /\ WellFormed(fnCall.server)) =>
           fnCall.ok = CompatibleByRule(fnCall.server, fnCall.client)
    /\ fnCall.fn = "NewSocket" =>
           /\ fnCall.err = ErrNil
           /\ WellFormed(fnCall.server) =>
                  (fnCall.warned <=>
                       ~CompatibleByRule(fnCall.server, fnCall.client))

\* A client 1.9 has been found compatible with a server 1.1.
VersionRuleWitness ==
    /\ fnCall.fn = "isVersionCompatible"
    /\ fnCall.server = <<"1", ".", "1">>
    /\ fnCall.client = <<"1", ".", "9">>
    /\ fnCall.ok

\* C26: once Close has been called, or a receive goroutine has closed the
\* channel, no setup call returns success, running does not become true
\* again and no receive goroutine is started.
ClosedIsFinal ==
    [][(chanClosed \/ ~wsOpen) =>
          /\ running' => running
          /\ Len(listeners') = Len(listeners)
          /\ \A t \in Tasks :
                 ~(pc[t] = "hs_disp" /\ pc'[t] = "idle"
                   /\ ret'[t].err = ErrNil)
      ]_vars

\* C28: at most one receive goroutine is alive at any time, and no setup
\* call is reading from the connection while a receive goroutine is at its
\* read.
OneReceiveLoop ==
    /\ Cardinality({i \in DOMAIN listeners : listeners[i].pc # "done"}) <= 1
    /\ \A t \in Tasks :
           pc[t] = "hs_read" =>
               \A i \in DOMAIN listeners : listeners[i].pc # "read"

\* C27: On, Once and RemoveCallback called on one task while another task
\* dispatches never write an inner map of the registry that the dispatcher
\* is ranging over, and the process is never aborted.
RegistryAccessSafe ==
    /\ []~panicked
    /\ [][/\ nextId' # nextId =>
                 \A u \in Tasks :
                     \A i \in DOMAIN stack[u] :
                         ~ /\ stack[u][i].attached
                           /\ stack[u][i].msg.name \in DOMAIN eventListeners
                           /\ stack[u][i].msg.name = callbacks'[nextId].event
          /\ (removed' # removed /\ log' = log) =>
                 \A u \in Tasks :
                     \A i \in DOMAIN stack[u] :
                         ~ /\ stack[u][i].attached
                           /\ stack[u][i].msg.name \in DOMAIN eventListeners
         ]_vars

\* C29: an error event received by RunEventLoop or NextEvent is dispatched
\* like any other event: when its dispatch ends every callback registered
\* for the error event has been invoked once for it, RunEventLoop goes back
\* to its loop condition and NextEvent returns the event with ok = true and
\* err = nil; no step of the dispatching task changes running, s.err or the
\* channel.
ErrorEventDispatched ==
    [][\A t \in Tasks :
          LET inErr == /\ pc[t] \in {"run_disp", "next_disp"}
                       /\ stack[t] # <<>>
                       /\ stack[t][1].msg.name = ErrorEvent
              m == stack[t][1].msg
          IN  /\ (inErr /\ pc'[t] # pc[t]) =>
                     /\ ErrorEvent \in DOMAIN eventListeners =>
                            \A id \in eventListeners[ErrorEvent] :
                                CountFor(m.seq, id) = 1
                     /\ pc[t] = "run_disp" => pc'[t] = "run_check"
                     /\ pc[t] = "next_disp" =>
                            /\ pc'[t] = "idle"
                            /\ ret'[t].op = "NextEvent"
                            /\ ret'[t].ok
                            /\ ret'[t].err = ErrNil
                            /\ ret'[t].name = ErrorEvent
                            /\ ret'[t].seq = m.seq
              /\ (inErr /\ listeners' = listeners) =>
                     /\ running' = running
                     /\ err' = err
                     /\ chanClosed' = chanClosed
      ]_vars

\* NextEvent has returned an error event to an application that has a
\* callback on it: the callback was invoked, and the socket is running with
\* its channel open.
ErrorEventDispatchedWitness ==
    /\ ret["app"].op = "NextEvent"
    /\ ret["app"].ok
    /\ ret["app"].name = ErrorEvent
    /\ \E i \in DOMAIN log :
           /\ log[i].seq = ret["app"].seq
           /\ log[i].id \in AppIds
           /\ callbacks[log[i].id].event = ErrorEvent
    /\ running
    /\ ~chanClosed
    /\ err = ErrNil

\* C30: Join returns success only once its wait has read both a joined
\* event and a player_secret event.
JoinAwaitsBoth ==
    [][\A t \in Tasks :
          (pc[t] = "hs_disp" /\ pc'[t] = "idle" /\ setup[t].kind = "Join"
           /\ ret'[t].err = ErrNil) =>
              /\ \E j \in DOMAIN setup[t].seen :
                     setup[t].seen[j].name = JoinedEvent
              /\ \E j \in DOMAIN setup[t].seen :
                     setup[t].seen[j].name = PlayerSecretEvent
      ]_vars

\* C31: after Close was called on a socket whose receive goroutine was
\* running (no Leave before it, no read error before it), RunEventLoop
\* returns nil and an error NextEvent reports is ErrClosed.
LocalCloseIsClean ==
    (/\ ~wsOpen
     /\ listeners # <<>>
     /\ connErr = ErrNil
     /\ LeaveEvent \notin sent
     /\ err \notin FramingErrors) =>
        /\ runRet.err \in {"none", ErrNil}
        /\ \A t \in Tasks :
               (ret[t].op = "NextEvent" /\ ret[t].err # ErrNil) =>
                   ret[t].err = ErrClosed

\* C32: a receive goroutine is started, and running set, only by the step in
\* which a setup call returns success; before any was started running is
\* false and there is no session; the step in which Join, Connect or
\* Spectate returns an error changes neither running nor the goroutines nor
\* the session; Join called with an empty username or on a socket that has a
\* session returns an error in that step and sends nothing.
SetupFailureStartsNothing ==
    /\ [](listeners = <<>> => (~running /\ session = NoSession))
    /\ [][\A t \in Tasks :
            LET returns == /\ pc'[t] = "idle"
                           /\ ret'[t].op \in SetupKinds
                           /\ \/ pc[t] \in {"hs_read", "hs_disp"}
                              \/ pc[t] = "idle" /\ ret'[t] # ret[t]
            IN  /\ (returns /\ ret'[t].err # ErrNil) =>
                       /\ running' = running
                       /\ listeners' = listeners
                       /\ session' = session
                /\ (Len(listeners') > Len(listeners) \/ (running' /\ ~running))
                       => \E u \in Tasks :
                              /\ pc[u] = "hs_disp"
                              /\ pc'[u] = "idle"
                              /\ ret'[u].err = ErrNil
                /\ (pc[t] = "idle" /\ pc'[t] = "hs_read"
                    /\ setup'[t].kind = "Join") =>
                       /\ session.Name = ""
                       /\ setup'[t].username # ""
                /\ (returns /\ pc[t] = "idle") =>
                       /\ ret'[t].err # ErrNil
                       /\ sent' = sent
                       /\ nread' = nread
       ]_vars

\* A setup call has returned the error of a response whose payload does not
\* decode: no receive goroutine was started, running is false and there is
\* no session.
SetupFailureStartsNothingWitness ==
    /\ ret["app"].op \in {"Join", "Connect"}
    /\ ret["app"].err = "unmarshal: unexpected end of input"
    /\ listeners = <<>>
    /\ ~running
    /\ session = NoSession
    /\ nread > 0

\* C33: the wait of a setup call ends only on the expected response, on an
\* error event or on a failed read of the connection; after any other
\* message, once every callback registered for it has been invoked, the call
\* reads again.
WaitEndsOnlyOnResponse ==
    [][\A t \in Tasks :
          /\ (pc[t] \in {"hs_read", "hs_disp"} /\ pc'[t] = "idle") =>
                 \/ /\ pc[t] = "hs_disp"
                    /\ Top(t).msg.name \in {setup[t].expect, ErrorEvent}
                 \/ /\ pc[t] = "hs_read"
                    /\ ~wsOpen \/ connErr' # ErrNil
          /\ (/\ pc[t] = "hs_disp"
              /\ pc'[t] # pc[t]
              /\ Top(t).msg.name \notin {setup[t].expect, ErrorEvent}) =>
                 /\ pc'[t] = "hs_read"
                 /\ \A id \in Top(t).start \ removed :
                        CountFor(Top(t).msg.seq, id) = 1
      ]_vars

\* C34: triggerEventListeners is called at most once for every message
\* decoded, whether the wait of a setup call or the receive goroutine read
\* it, and once the terminal error has been recorded it has been called
\* exactly once for every message decoded.
DispatchedOnce ==
    /\ \A s \in DOMAIN dispatched : dispatched[s] <= 1
    /\ err # ErrNil => \A s \in DOMAIN dispatched : dispatched[s] = 1

\* NextEvent has reported the clean close after the response was dispatched
\* by the wait of Join and a second message, handed over by the receive
\* goroutine, was dispatched to a callback by RunEventLoop or NextEvent.
DispatchedOnceWitness ==
    /\ ret["app"].op = "NextEvent"
    /\ ret["app"].err = ErrClosed
    /\ DOMAIN dispatched = {1, 2}
    /\ \A s \in DOMAIN dispatched : dispatched[s] = 1
    /\ \E i \in DOMAIN log :
           log[i].seq = 2 /\ log[i].via \in {"next_disp", "run_disp"}

\* C35: while the channel is closed, s.err is ErrClosed or the error of the
\* connection and running is false; NextEvent returns (false, nil) only on
\* the open channel; RunEventLoop returning on the closed channel returns nil
\* only if the error recorded is ErrClosed.
ClosedMeansTerminated ==
    /\ [](chanClosed => (err \notin FramingErrors \cup {ErrNil} /\ ~running))
    /\ [](\A t \in Tasks :
             (ret[t].op = "NextEvent" /\ ~ret[t].ok /\ ret[t].err = ErrNil)
                 => ret[t].pre # "closed")
    /\ [][\A t \in Tasks :
            (/\ pc[t] \in {"run_check", "run_recv"}
             /\ pc'[t] = "idle"
             /\ chanClosed
             /\ err # ErrClosed) => ret'[t].err # ErrNil]_vars

\* C36: no receive goroutine comes to close the channel when it is closed
\* already, or to send on the closed channel.
QueueClosedOnce ==
    \A i \in DOMAIN listeners :
        ~(chanClosed /\ listeners[i].pc \in {"close", "send"})

\* C37: after Leave or Close the receive goroutine does not stay at its send
\* for ever: a goroutine that holds a wrapper to hand over gets past the send.
ReceiveLoopUnblocks ==
    (/\ \E i \in DOMAIN listeners : listeners[i].pc = "send"
     /\ LeaveEvent \in sent \/ ~wsOpen) ~>
        (\A i \in DOMAIN listeners : listeners[i].pc # "send")

\* C38: once a callback invoked for a message with a non-standard name has
\* called Leave, the process has not been aborted and no callback that the
\* application registered for a non-standard name is invoked any more.
NoHandlerAfterLeave ==
    /\ [](leaves > 0 => ~panicked)
    /\ [][(/\ Len(log') > Len(log)
           /\ \E i \in DOMAIN log :
                  /\ callbacks[log[i].id].body = "leave"
                  /\ ~IsStandardEvent(log[i].msg.name)) =>
              LET id == log'[Len(log')].id
              IN  id \in BuiltinIds \/ IsStandardEvent(callbacks[id].event)
       ]_vars

\* C39: Send returns an error exactly when the data could not be encoded,
\* and nil when the write failed; a setup call goes on to its wait whether
\* or not the connection is open, and on a connection closed locally it
\* returns the error of its read.
SendReportsEncodingOnly ==
    /\ [](\A t \in Tasks :
             ret[t].op = "Send" =>
                 /\ ret[t].err # ErrNil <=> ret[t].pre = "not encoded"
                 /\ ret[t].pre = "write failed" => ret[t].err = ErrNil)
    /\ [][\A t \in Tasks :
            /\ (pc[t] = "idle" /\ setup'[t].kind \in SetupKinds) =>
                   pc'[t] = "hs_read"
            /\ (pc[t] = "idle" /\ pc'[t] = "idle" /\ ret'[t] # ret[t]) =>
                   ret'[t].op \notin SetupKinds
            /\ (pc[t] = "hs_read" /\ pc'[t] = "idle" /\ ~wsOpen) =>
                   ret'[t].err = ErrNetClosed
       ]_vars

\* Send has returned nil for an event it could not write, on a socket the
\* application had closed.
SendReportsEncodingOnlyWitness ==
    /\ ret["app"].op = "Send"
    /\ ret["app"].pre = "write failed"
    /\ ret["app"].err = ErrNil
    /\ ~wsOpen
====
